---- MODULE Spec2Model ----
(***************************************************************************)
(* Model of react-abi-input: the tuple type-signature parser               *)
(* (AbiInput/helpers/methods.ts) and the ABI linearizers                   *)
(* (helpers/linearizeAbi.ts and its flattening variant).                   *)
(*                                                                         *)
(* A JavaScript string is a sequence of one-character strings.             *)
(* Indices are 1-based here (0-based in the source); "not found" is 0      *)
(* where the source uses -1.                                               *)
(***************************************************************************)
EXTENDS Integers, Sequences, FiniteSets, TLC

VARIABLES
  signature,   \* the string handed to the parser
  parsed,      \* what the parser returned (a sequence of {type, name})
  op,          \* which parser entry point has run: "none" before any
  abi,         \* abi.inputs: the parameter tree handed to a linearizer
  linearized,  \* what the linearizer returned
  strategy,    \* which linearizer has run: "none" before any
  vType,       \* the type name handed to a validator
  vValue,      \* the value text handed to a validator
  vCall,       \* which validator has run: "none" before any
  vOut,        \* what the validator returned and did
  abiProp,            \* AbiInput: the abi prop and what parseAbiItem does with it
  isValid,            \* AbiInput state
  error,
  linearizedAbi,
  paramValues,
  paramValidity,
  valuePreview,
  functionSignature,
  bytecode,
  stale,       \* the pieces of state set since the last render
  rendered,    \* the state the handlers and effects of the last render read
  children,    \* the SolidityInput of each parameter
  pending,     \* the effects of the commit still to run, in order
  history,     \* the handler or effect that ran last
  txSignature, \* the signature handed to combineTx
  txArgs,      \* the value preview handed to combineTx
  txOut,       \* what combineTx returned or threw: <<>> before the call
  tupleTypeText,   \* the tuple type handed to the two parsers
  inputFields,     \* the fields parseTupleType returned, call by call
  formatterFields  \* <<the fields parseTypeSignature returned>>, <<>> before

parserVars == <<signature, parsed, op>>
linearizeVars == <<abi, linearized, strategy>>
validateVars == <<vType, vValue, vCall, vOut>>

componentVars ==
  <<abiProp, isValid, error, linearizedAbi, paramValues, paramValidity,
    valuePreview, functionSignature, bytecode, stale, rendered, children,
    pending, history>>

txVars == <<txSignature, txArgs, txOut>>

fieldVars == <<tupleTypeText, inputFields, formatterFields>>

vars ==
  <<parserVars, linearizeVars, validateVars, componentVars, txVars,
    fieldVars>>

(***************************************************************************)
(* Bounds of the model.                                                    *)
(***************************************************************************)
MaxLen == 5      \* fragments concatenated into one parser input
MaxNodes == 3    \* parameter nodes in one abi.inputs tree

(***************************************************************************)
(* JavaScript string primitives.                                           *)
(***************************************************************************)
TAB == "\t"
Whitespace == {" ", TAB}         \* what String.prototype.trim() strips

RECURSIVE trimStart(_)
trimStart(s) ==
  IF s # <<>> /\ Head(s) \in Whitespace THEN trimStart(Tail(s)) ELSE s

RECURSIVE trimEnd(_)
trimEnd(s) ==
  IF s # <<>> /\ s[Len(s)] \in Whitespace
  THEN trimEnd(SubSeq(s, 1, Len(s) - 1)) ELSE s

trim(s) == trimEnd(trimStart(s))

\* s.split(sep) for a one-character separator: the pieces between the
\* separators, empty pieces included.
RECURSIVE splitLoop(_, _, _, _, _)
splitLoop(s, sep, i, cur, acc) ==
  IF i > Len(s) THEN Append(acc, cur)
  ELSE IF s[i] = sep THEN splitLoop(s, sep, i + 1, <<>>, Append(acc, cur))
  ELSE splitLoop(s, sep, i + 1, Append(cur, s[i]), acc)

split(s, sep) == splitLoop(s, sep, 1, <<>>, <<>>)

\* array.filter(Boolean) on an array of strings: drops the empty strings.
filterBoolean(parts) == SelectSeq(parts, LAMBDA p : p # <<>>)

\* array.join(sep)
RECURSIVE join(_, _)
join(parts, sep) ==
  IF parts = <<>> THEN <<>>
  ELSE IF Len(parts) = 1 THEN parts[1]
  ELSE parts[1] \o sep \o join(Tail(parts), sep)

\* s.startsWith(p), s.endsWith(p), s.includes(p)
startsWith(s, p) == Len(s) >= Len(p) /\ SubSeq(s, 1, Len(p)) = p
endsWith(s, p) == Len(s) >= Len(p) /\ SubSeq(s, Len(s) - Len(p) + 1, Len(s)) = p
includes(s, p) ==
  \E i \in 1..(Len(s) - Len(p) + 1) : SubSeq(s, i, i + Len(p) - 1) = p

\* s.substring(from) with a 0-based from
substringFrom(s, from) == SubSeq(s, from + 1, Len(s))

(***************************************************************************)
(* Words used by the source and by the inputs of the model.                *)
(***************************************************************************)
W_memory == <<"m", "e", "m", "o", "r", "y">>
W_storage == <<"s", "t", "o", "r", "a", "g", "e">>
W_calldata == <<"c", "a", "l", "l", "d", "a", "t", "a">>
W_payable == <<"p", "a", "y", "a", "b", "l", "e">>
W_internal == <<"i", "n", "t", "e", "r", "n", "a", "l">>
W_external == <<"e", "x", "t", "e", "r", "n", "a", "l">>
W_tuple == <<"t", "u", "p", "l", "e">>
W_param == <<"p", "a", "r", "a", "m">>
W_uint256 == <<"u", "i", "n", "t", "2", "5", "6">>
W_address == <<"a", "d", "d", "r", "e", "s", "s">>
W_bool == <<"b", "o", "o", "l">>
W_uint8 == <<"u", "i", "n", "t", "8">>

(***************************************************************************)
(* parseTypeAndName                                                        *)
(***************************************************************************)
NotFound == 0

Field(t, n) == [type |-> t, name |-> n]

\* The scan for the parenthesis that closes the tuple the item starts with.
RECURSIVE tupleEndScan(_, _, _)
tupleEndScan(item, i, parenDepth) ==
  IF i > Len(item) THEN NotFound
  ELSE LET d1 == IF item[i] = "(" THEN parenDepth + 1 ELSE parenDepth
           d2 == IF item[i] = ")" THEN d1 - 1 ELSE d1
       IN IF item[i] = ")" /\ d2 = 0 THEN i
          ELSE tupleEndScan(item, i + 1, d2)

\* The scan for the end of the array notation that follows the tuple.
RECURSIVE arrayEndScan(_, _, _)
arrayEndScan(item, i, squareBracketDepth) ==
  IF i > Len(item) THEN NotFound
  ELSE LET d1 == IF item[i] = "[" THEN squareBracketDepth + 1
                 ELSE squareBracketDepth
           d2 == IF item[i] = "]" THEN d1 - 1 ELSE d1
       IN IF item[i] = "]" /\ d2 = 0 THEN i
          ELSE arrayEndScan(item, i + 1, d2)

tupleTypeOf_dropClose(item, tupleEndIndex) == SubSeq(item, 1, tupleEndIndex - 1)

\* item.substring(0, tupleEndIndex + 1)
tupleTypeOf(item, tupleEndIndex) == SubSeq(item, 1, tupleEndIndex)

\* The branch for an item that starts with "(".
tupleTypeAndName(item) ==
  LET tupleEndIndex == tupleEndScan(item, 1, 0) IN
  IF tupleEndIndex = NotFound THEN Field(item, <<>>)
  ELSE IF tupleEndIndex < Len(item) THEN
    LET tupleType == tupleTypeOf(item, tupleEndIndex)
        rest == trim(SubSeq(item, tupleEndIndex + 1, Len(item)))
    IN IF startsWith(rest, <<"[">>) THEN
         LET arrayEndIndex == arrayEndScan(item, tupleEndIndex + 1, 0) IN
         IF arrayEndIndex = NotFound THEN Field(item, <<>>)
         ELSE Field(SubSeq(item, 1, arrayEndIndex),
                    trim(SubSeq(item, arrayEndIndex + 1, Len(item))))
       ELSE Field(tupleType, join(filterBoolean(split(rest, " ")), <<" ">>))
  ELSE Field(item, <<>>)

typeModifiers_noPayable ==
  {W_memory, W_storage, W_calldata, W_internal, W_external}

typeModifiers ==
  {W_memory, W_storage, W_calldata, W_payable, W_internal, W_external}

\* The branch for an item that does not start with "(".
wordsTypeAndName(item) ==
  LET words == filterBoolean(split(item, " "))
      nameIndex == Len(words)
  IN IF Len(words) = 1 THEN Field(words[1], <<>>)
     ELSE IF words[nameIndex] \in typeModifiers
          THEN Field(join(words, <<" ">>), <<>>)
          ELSE Field(join(SubSeq(words, 1, nameIndex - 1), <<" ">>),
                     words[nameIndex])

parseTypeAndName(item0) ==
  LET item == trim(item0) IN
  IF item = <<>> THEN Field(<<>>, <<>>)
  ELSE IF startsWith(item, <<"(">>) THEN tupleTypeAndName(item)
  ELSE wordsTypeAndName(item)

(***************************************************************************)
(* parseTypeSignature                                                      *)
(***************************************************************************)
notATuple_startOnly(sig) == sig = <<>> \/ ~startsWith(sig, <<"(">>)

\* The guard of the early return.
notATuple(sig) ==
  sig = <<>> \/ ~startsWith(sig, <<"(">>) \/ ~endsWith(sig, <<")">>)

isItemEnd_anyDepth(char, parenDepth) == char = ","

\* The condition under which a comma ends the current item.
isItemEnd(char, parenDepth) == char = "," /\ parenDepth = 0

\* result.push(parseTypeAndName(currentItem.trim())) unless the item is blank
pushItem(result, currentItem) ==
  IF trim(currentItem) # <<>>
  THEN Append(result, parseTypeAndName(trim(currentItem)))
  ELSE result

RECURSIVE signatureScan(_, _, _, _, _)
signatureScan(content, currentPos, parenDepth, currentItem, result) ==
  IF currentPos > Len(content) THEN pushItem(result, currentItem)
  ELSE LET char == content[currentPos] IN
    IF char = "(" THEN
      signatureScan(content, currentPos + 1, parenDepth + 1,
                    Append(currentItem, char), result)
    ELSE IF char = ")" THEN
      signatureScan(content, currentPos + 1, parenDepth - 1,
                    Append(currentItem, char), result)
    ELSE IF isItemEnd(char, parenDepth) THEN
      signatureScan(content, currentPos + 1, parenDepth,
                    <<>>, pushItem(result, currentItem))
    ELSE
      signatureScan(content, currentPos + 1, parenDepth,
                    Append(currentItem, char), result)

parseTypeSignature(sig) ==
  IF notATuple(sig) THEN <<>>
  ELSE LET content == trim(SubSeq(sig, 2, Len(sig) - 1)) IN
       IF content = <<>> THEN <<>>
       ELSE signatureScan(content, 1, 0, <<>>, <<>>)

(***************************************************************************)
(* Inputs of the parser: every concatenation of at most MaxLen fragments,  *)
(* and the signatures of the test suite.                                   *)
(***************************************************************************)
Fragments ==
  {<<"(">>, <<")">>, <<",">>, <<" ">>, <<TAB>>, <<"[">>, <<"]">>,
   <<"a">>, W_payable}

RECURSIVE concat(_)
concat(parts) == IF parts = <<>> THEN <<>> ELSE Head(parts) \o concat(Tail(parts))

\* s is the concatenation of at most maxLen fragments.
IsFragmentString(s, maxLen) ==
  \E n \in 0..maxLen : \E f \in [1..n -> Fragments] : s = concat(f)

\* (uint256 a, (uint256 b, address c) nestedTuple, bool flag)
ExampleNested ==
  concat(<<<<"(">>, W_uint256, <<" ", "a", ",", " ", "(">>, W_uint256,
           <<" ", "b", ",", " ">>, W_address, <<" ", "c", ")", " ">>,
           <<"n", "e", "s", "t", "e", "d">>, <<",", " ">>, W_bool,
           <<" ", "f", "l", "a", "g", ")">>>>)

\* address payable owner
ExamplePayableOwner ==
  concat(<<W_address, <<" ">>, W_payable, <<" ", "o", "w", "n", "e", "r">>>>)

\* (address user, uint256 value)
UserValueTuple ==
  concat(<<<<"(">>, W_address, <<" ", "u", "s", "e", "r", ",", " ">>,
           W_uint256, <<" ", "v", "a", "l", "u", "e", ")">>>>)

\* (address user, uint256 value)[] xs
ExampleTupleArray == UserValueTuple \o <<"[", "]", " ", "x", "s">>

\* (address user, uint256 value)[3] xs
ExampleTupleFixedArray == UserValueTuple \o <<"[", "3", "]", " ", "x", "s">>

\* (address user, uint256 value)[][] xs
ExampleTupleArray2 == UserValueTuple \o <<"[", "]", "[", "]", " ", "x", "s">>

\* (uint256 amount, (address user, uint256 value)[] nestedArray)
ExampleNestedArray ==
  concat(<<<<"(">>, W_uint256, <<" ", "a", "m", "o", "u", "n", "t", ",", " ">>,
           UserValueTuple, <<"[", "]", " ">>,
           <<"n", "e", "s", "t", "e", "d", "A", "r", "r", "a", "y", ")">>>>)

\* (  uint256   firstParam  ,  address   secondParam  )
ExampleWhitespace ==
  concat(<<<<"(", " ", " ">>, W_uint256, <<" ", " ", " ", "f", "i", "r", "s", "t">>,
           <<" ", " ", ",", " ", " ">>, W_address,
           <<" ", " ", " ", "s", "e", "c", "o", "n", "d", " ", " ", ")">>>>)

\* uint256<TAB>amount
ExampleTabbed == W_uint256 \o <<TAB, "a", "m", "o", "u", "n", "t">>

Examples ==
  {ExampleNested, ExamplePayableOwner, ExampleTupleArray,
   ExampleTupleFixedArray, ExampleTupleArray2, ExampleNestedArray,
   ExampleWhitespace, ExampleTabbed}

IsParserInput(s, maxLen) == IsFragmentString(s, maxLen) \/ s \in Examples

(***************************************************************************)
(* The parser as a state machine: one call on one input.                   *)
(***************************************************************************)
LinIdle == abi = <<>> /\ linearized = <<>> /\ strategy = "none"

ValidateIdle ==
  vType = <<>> /\ vValue = <<>> /\ vCall = "none" /\ vOut = <<>>

ComponentIdle ==
  /\ abiProp = <<>> /\ isValid = TRUE /\ error = ""
  /\ linearizedAbi = <<>> /\ paramValues = <<>> /\ paramValidity = <<>>
  /\ valuePreview = <<>> /\ functionSignature = <<>> /\ bytecode = <<>>
  /\ stale = {} /\ rendered = <<>> /\ children = <<>> /\ pending = <<>>
  /\ history = <<>>

TxIdle == txSignature = <<>> /\ txArgs = <<>> /\ txOut = <<>>

FieldsIdle ==
  tupleTypeText = <<>> /\ inputFields = <<>> /\ formatterFields = <<>>

InitParser ==
  /\ IsParserInput(signature, MaxLen)
  /\ parsed = <<>>
  /\ op = "none"
  /\ LinIdle
  /\ ValidateIdle
  /\ ComponentIdle
  /\ TxIdle
  /\ FieldsIdle

CallParseTypeSignature ==
  /\ op = "none"
  /\ parsed' = parseTypeSignature(signature)
  /\ op' = "parseTypeSignature"
  /\ UNCHANGED <<signature, linearizeVars, validateVars, componentVars, txVars,
                 fieldVars>>

CallParseTypeAndName ==
  /\ op = "none"
  /\ parsed' = <<parseTypeAndName(signature)>>
  /\ op' = "parseTypeAndName"
  /\ UNCHANGED <<signature, linearizeVars, validateVars, componentVars, txVars,
                 fieldVars>>

NextParser == CallParseTypeSignature \/ CallParseTypeAndName

SpecParser == InitParser /\ [][NextParser]_vars

TypeOKParser ==
  /\ op \in {"none", "parseTypeSignature", "parseTypeAndName"}
  /\ op = "parseTypeAndName" => Len(parsed) = 1
(***************************************************************************)
(* Properties of the parser.  The definitions of this section describe     *)
(* the input text directly and use none of the parser's operators.         *)
(***************************************************************************)
\* The text with every whitespace character removed.
NoWs(s) == SelectSeq(s, LAMBDA c : c \notin Whitespace)

IsBlank(s) == \A i \in 1..Len(s) : s[i] \in Whitespace

\* Opening minus closing parentheses among the first i characters.
DepthAt(s, i) ==
  Cardinality({j \in 1..i : s[j] = "("}) - Cardinality({j \in 1..i : s[j] = ")"})

Balanced(s) == DepthAt(s, Len(s)) = 0 /\ \A i \in 1..Len(s) : DepthAt(s, i) >= 0

\* signature is "(" content ")" and the parentheses of content are balanced.
IsTupleText(s) ==
  /\ Len(s) >= 2 /\ s[1] = "(" /\ s[Len(s)] = ")"
  /\ Balanced(SubSeq(s, 2, Len(s) - 1))

ContentOf(s) == SubSeq(s, 2, Len(s) - 1)

\* The positions of the commas that are outside every parenthesized group.
TopLevelCommas(s) == {i \in 1..Len(s) : s[i] = "," /\ DepthAt(s, i) = 0}

RECURSIVE Ascending(_)
Ascending(S) ==
  IF S = {} THEN <<>>
  ELSE LET m == CHOOSE x \in S : \A y \in S : x <= y
       IN <<m>> \o Ascending(S \ {m})

\* The texts between consecutive top-level commas, in source order.
TopLevelItems(s) ==
  LET cuts == <<0>> \o Ascending(TopLevelCommas(s)) \o <<Len(s) + 1>>
  IN [k \in 1..(Len(cuts) - 1) |-> SubSeq(s, cuts[k] + 1, cuts[k + 1] - 1)]

\* The top-level items that hold something other than whitespace.
FieldItems(s) == SelectSeq(TopLevelItems(s), LAMBDA it : ~IsBlank(it))

\* The parenthesized group a text starts with: up to the first position
\* where the parentheses opened so far are all closed.
LeadingGroup(s) ==
  LET ends == {i \in 1..Len(s) : DepthAt(s, i) = 0}
  IN SubSeq(s, 1, CHOOSE i \in ends : \A j \in ends : i <= j)

IsPrefix(p, s) == Len(p) <= Len(s) /\ SubSeq(s, 1, Len(p)) = p

\* C1: on "(" items ")" with balanced parentheses parseTypeSignature
\* returns one field per top-level comma-separated item that is not blank,
\* in source order; each field holds exactly the non-whitespace characters
\* of its item (so a comma inside a nested group stays in the field), and
\* the nested group an item starts with is kept intact at the start of the
\* field's type.
C1_OneFieldPerTopLevelItem ==
  (op = "parseTypeSignature" /\ IsTupleText(signature)) =>
    LET items == FieldItems(ContentOf(signature)) IN
    /\ Len(parsed) = Len(items)
    /\ \A k \in 1..Len(items) :
         /\ NoWs(parsed[k].type \o parsed[k].name) = NoWs(items[k])
         /\ trim(items[k])[1] = "(" =>
              IsPrefix(LeadingGroup(trim(items[k])), parsed[k].type)

\* (uint256 b, address c)
NestedGroupText ==
  <<"(">> \o W_uint256 \o <<" ", "b", ",", " ">> \o W_address \o <<" ", "c", ")">>

C1_Witness ==
  /\ op = "parseTypeSignature"
  /\ signature = ExampleNested
  /\ Len(parsed) = 3
  /\ parsed[1] = Field(W_uint256, <<"a">>)
  /\ parsed[2] = Field(NestedGroupText, <<"n", "e", "s", "t", "e", "d">>)
  /\ parsed[3] = Field(W_bool, <<"f", "l", "a", "g">>)

\* C2: parseTypeSignature returns the empty sequence for the empty input,
\* for an input that does not start with "(" or does not end with ")", and
\* for parentheses that enclose nothing or only whitespace.
C2_NotATupleGivesEmpty ==
  (/\ op = "parseTypeSignature"
   /\ \/ signature = <<>>
      \/ signature[1] # "("
      \/ signature[Len(signature)] # ")"
      \/ IsBlank(ContentOf(signature)))
  => parsed = <<>>

C2_Witness ==
  /\ op = "parseTypeSignature"
  /\ signature = <<"(", " ", TAB, ")">>
  /\ parsed = <<>>

\* The words of a text: the maximal runs of characters other than the space.
WordStarts(s) == {i \in 1..Len(s) : s[i] # " " /\ (i = 1 \/ s[i - 1] = " ")}
WordEnds(s) == {i \in 1..Len(s) : s[i] # " " /\ (i = Len(s) \/ s[i + 1] = " ")}
WordsOf(s) ==
  LET b == Ascending(WordStarts(s))
      e == Ascending(WordEnds(s))
  IN [k \in 1..Len(b) |-> SubSeq(s, b[k], e[k])]

RECURSIVE SpaceJoined(_)
SpaceJoined(ws) ==
  IF Len(ws) = 0 THEN <<>>
  ELSE SpaceJoined(SubSeq(ws, 1, Len(ws) - 1))
       \o (IF Len(ws) > 1 THEN <<" ">> ELSE <<>>) \o ws[Len(ws)]

Qualifiers ==
  {W_memory, W_storage, W_calldata, W_payable, W_internal, W_external}

\* C3: on an item that does not start with "(", parseTypeAndName gives a
\* single word as the type with an empty name; of several words the last
\* is the name and the others, joined by single spaces, the type, unless
\* the last word is a type qualifier: then the name is empty and the type
\* is all the words joined.
C3_WordsTypeAndName ==
  (/\ op = "parseTypeAndName"
   /\ trim(signature) # <<>>
   /\ trim(signature)[1] # "(")
  => LET ws == WordsOf(trim(signature))
         n == Len(ws)
     IN /\ n = 1 => parsed[1] = Field(ws[1], <<>>)
        /\ (n > 1 /\ ws[n] \notin Qualifiers) =>
             parsed[1] = Field(SpaceJoined(SubSeq(ws, 1, n - 1)), ws[n])
        /\ (n > 1 /\ ws[n] \in Qualifiers) =>
             parsed[1] = Field(SpaceJoined(ws), <<>>)

C3_Witness ==
  /\ op = "parseTypeAndName"
  /\ signature = ExamplePayableOwner
  /\ parsed[1] = Field(W_address \o <<" ">> \o W_payable, <<"o", "w", "n", "e", "r">>)

C3_WitnessQualifierLast ==
  /\ op = "parseTypeAndName"
  /\ signature = <<"a", " ">> \o W_payable
  /\ parsed[1] = Field(<<"a", " ">> \o W_payable, <<>>)
IsDigit(c) == c \in {"0", "1", "2", "3", "4", "5", "6", "7", "8", "9"}

\* One or more array dimensions: "[]", "[N]", "[][]", ...
RECURSIVE IsArraySuffix(_)
IsArraySuffix(s) ==
  /\ Len(s) >= 2
  /\ s[1] = "["
  /\ \E j \in 2..Len(s) :
       /\ s[j] = "]"
       /\ \A i \in 2..(j - 1) : IsDigit(s[i])
       /\ j = Len(s) \/ IsArraySuffix(SubSeq(s, j + 1, Len(s)))

IsIdentifier(s) ==
  /\ s # <<>>
  /\ \A i \in 1..Len(s) : s[i] \notin (Whitespace \cup {"(", ")", "[", "]", ","})

\* C4: on a parenthesized tuple immediately followed by an array suffix
\* ("[]", "[N]", "[][]", ...) and then a name, parseTypeAndName puts the
\* tuple text plus the whole suffix into type and the identifier into name.
C4_TupleArraySuffixInType ==
  LET item == trim(signature) IN
  (/\ op = "parseTypeAndName"
   /\ item # <<>>
   /\ item[1] = "("
   /\ \E i \in 1..Len(item) : DepthAt(item, i) = 0)
  => LET g == Len(LeadingGroup(item)) IN
     \A j \in (g + 1)..(Len(item) - 1) :
       (/\ IsArraySuffix(SubSeq(item, g + 1, j))
        /\ IsIdentifier(trim(SubSeq(item, j + 1, Len(item)))))
       => parsed[1] = Field(SubSeq(item, 1, j), trim(SubSeq(item, j + 1, Len(item))))

\* The maximal runs of characters other than whitespace.
TokenStarts(s) ==
  {i \in 1..Len(s) : s[i] \notin Whitespace /\ (i = 1 \/ s[i - 1] \in Whitespace)}
TokenEnds(s) ==
  {i \in 1..Len(s) : s[i] \notin Whitespace /\ (i = Len(s) \/ s[i + 1] \in Whitespace)}
TokensOf(s) ==
  LET b == Ascending(TokenStarts(s))
      e == Ascending(TokenEnds(s))
  IN [k \in 1..Len(b) |-> SubSeq(s, b[k], e[k])]

\* The text with every run of whitespace replaced by one space; a run at
\* either end stays, as one space.
SingleSpaced(s) ==
  (IF s # <<>> /\ s[1] \in Whitespace THEN <<" ">> ELSE <<>>)
  \o SpaceJoined(TokensOf(s))
  \o (IF Len(s) > 1 /\ s[Len(s)] \in Whitespace /\ TokensOf(s) # <<>>
      THEN <<" ">> ELSE <<>>)

SingleSpacedField(f) == Field(SingleSpaced(f.type), SingleSpaced(f.name))
SingleSpacedFields(fs) == [k \in 1..Len(fs) |-> SingleSpacedField(fs[k])]

\* C5: parseTypeSignature and parseTypeAndName give the same fields for an
\* input and for the same input with every run of whitespace (spaces, tabs)
\* written as a single space; the whitespace kept inside a field's text is
\* compared single-spaced too.
C5_WhitespaceInsensitive ==
  /\ op = "parseTypeAndName" =>
       SingleSpacedFields(parsed)
         = SingleSpacedFields(<<parseTypeAndName(SingleSpaced(signature))>>)
  /\ op = "parseTypeSignature" =>
       SingleSpacedFields(parsed)
         = SingleSpacedFields(parseTypeSignature(SingleSpaced(signature)))

\* "<type> <name>", or "<type>" when the name is empty
WrittenField(f) == IF f.name = <<>> THEN f.type ELSE f.type \o <<" ">> \o f.name

RECURSIVE WrittenFields(_)
WrittenFields(fs) ==
  IF fs = <<>> THEN <<>>
  ELSE WrittenField(fs[1])
       \o (IF Len(fs) > 1 THEN <<",", " ">> ELSE <<>>) \o WrittenFields(Tail(fs))

WrittenTuple(fs) == <<"(">> \o WrittenFields(fs) \o <<")">>

RECURSIVE CommaJoined(_)
CommaJoined(items) ==
  IF items = <<>> THEN <<>>
  ELSE items[1] \o (IF Len(items) > 1 THEN <<",">> ELSE <<>>)
       \o CommaJoined(Tail(items))

\* The signature without its blank top-level items; the signature itself
\* when it has none.
WithoutBlankItems(s) == <<"(">> \o CommaJoined(FieldItems(ContentOf(s))) \o <<")">>

DigitChars == <<"0", "1", "2", "3", "4", "5", "6", "7", "8", "9">>

\* The decimal text of a natural number, as a template literal writes it.
RECURSIVE decimal(_)
decimal(n) ==
  IF n < 10 THEN <<DigitChars[n + 1]>>
  ELSE decimal(n \div 10) \o <<DigitChars[(n % 10) + 1]>>

\* input.name || `param${index}`, index being the 0-based forEach index
paramName(input, index) ==
  IF input.name # <<>> THEN input.name ELSE W_param \o decimal(index)

\* input.components is defined
hasComponents(input) == "components" \in DOMAIN input

arrayPart_dropped(type) == <<>>

\* input.type.substring(5): what follows "tuple"
arrayPart(type) == substringFrom(type, 5)

RECURSIVE formatTupleType(_)
formatTupleType(input) ==
  IF ~includes(input.type, W_tuple) \/ ~hasComponents(input) THEN input.type
  ELSE
    LET componentStr(index) ==
          LET comp == input.components[index + 1] IN
          IF includes(comp.type, W_tuple) /\ hasComponents(comp)
          THEN formatTupleType(comp) \o <<" ">> \o paramName(comp, index)
          ELSE comp.type \o <<" ">> \o paramName(comp, index)
        componentsStr ==
          join([k \in 1..Len(input.components) |-> componentStr(k - 1)],
               <<",", " ">>)
    IN IF input.type = W_tuple
       THEN <<"(">> \o componentsStr \o <<")">>
       ELSE <<"(">> \o componentsStr \o <<")">> \o arrayPart(input.type)

\* (input.type.match(/\[\]/g) || []).length
countEmptyBrackets(type) ==
  Cardinality({i \in 1..(Len(type) - 1) : type[i] = "[" /\ type[i + 1] = "]"})

\* One pushed entry of the single-row strategy: the input's own fields
\* (spread) overridden by the computed ones.
singleRowEntry(input, index, prefix, isInArray, arrayDepth) ==
  LET isArray == includes(input.type, <<"[">>)
      currentArrayDepth ==
        IF isArray THEN countEmptyBrackets(input.type) + arrayDepth
        ELSE arrayDepth
      transformedType ==
        IF includes(input.type, W_tuple) THEN formatTupleType(input)
        ELSE input.type
  IN [type |-> transformedType,
      name |-> prefix \o paramName(input, index),
      path |-> prefix,
      originalType |-> input.type,
      isElementOfArray |-> (isInArray \/ isArray),
      arrayDepth |-> currentArrayDepth] @@ input

\* processInputs of the single-row strategy: no recursion into components.
processInputs(inputs, prefix, isInArray, arrayDepth) ==
  [k \in 1..Len(inputs) |->
     singleRowEntry(inputs[k], k - 1, prefix, isInArray, arrayDepth)]

linearizeAbi(inputs) == processInputs(inputs, <<>>, FALSE, 0)

\* The test that sends an input down the tuple branch of the flattening
\* strategy.
isTupleInput(input) ==
  input.type = W_tuple \/ startsWith(input.type, W_tuple \o <<"[">>)

\* prefix + (input.name ? input.name + "." : "")
childPrefix(prefix, input, index) ==
  prefix \o (IF input.name # <<>> THEN input.name \o <<".">> ELSE <<>>)

childDepth_same(depth) == depth

\* depth + 1, the depth handed to the recursive call
childDepth(depth) == depth + 1

flatEntry(input, index, prefix, depth) ==
  [name |-> prefix \o paramName(input, index),
   depth |-> depth,
   path |-> prefix] @@ input

\* processInputs of the flattening strategy: a tuple, then its components.
RECURSIVE processInputsFlat(_, _, _, _)
processInputsFlat(inputs, index, prefix, depth) ==
  IF index >= Len(inputs) THEN <<>>
  ELSE LET input == inputs[index + 1] IN
    <<flatEntry(input, index, prefix, depth)>>
    \o (IF isTupleInput(input) /\ hasComponents(input)
        THEN processInputsFlat(input.components, 0,
                               childPrefix(prefix, input, index),
                               childDepth(depth))
        ELSE <<>>)
    \o processInputsFlat(inputs, index + 1, prefix, depth)

linearizeAbi_flat(inputs) == processInputsFlat(inputs, 0, <<>>, 0)

(***************************************************************************)
(* Inputs of the linearizers: every parameter tree of at most MaxNodes     *)
(* nodes over a few names and types; a tuple has at least one component.   *)
(***************************************************************************)
ParamNames == {<<>>, <<"a">>, W_param \o <<"1">>}
LeafTypes == {W_uint8}
TupleTypes ==
  {W_tuple, W_tuple \o <<"[", "]">>, W_tuple \o <<"[", "3", "]", "[", "]">>}

LeafNodes == [type : LeafTypes, name : ParamNames]

\* The trees of exactly n nodes, given the forests of fewer nodes.
NodesOfSize(n, forests) ==
  IF n = 1 THEN LeafNodes
  ELSE {[type |-> t, name |-> nm, components |-> cs] :
          t \in TupleTypes, nm \in ParamNames, cs \in forests[n - 1]}

\* forests[n]: the sequences of trees with n nodes in all, for n up to
\* maxNodes, built from the smaller ones.
RECURSIVE ForestTable(_, _, _)
ForestTable(forests, n, maxNodes) ==
  IF n > maxNodes THEN forests
  ELSE LET ofSize ==
             UNION {{<<h>> \o t : h \in NodesOfSize(k, forests),
                                  t \in forests[n - k]} : k \in 1..n}
       IN ForestTable(forests @@ (n :> ofSize), n + 1, maxNodes)

\* The parameter trees of at most maxNodes nodes.
AbiInputs(maxNodes) ==
  LET forests == ForestTable(0 :> {<<>>}, 1, maxNodes)
  IN UNION {forests[n] : n \in 0..maxNodes}

(***************************************************************************)
(* The linearizers as a state machine: one call on one parameter tree.     *)
(***************************************************************************)
ParserIdle == signature = <<>> /\ parsed = <<>> /\ op = "none"

InitLinearize ==
  /\ abi \in AbiInputs(MaxNodes)
  /\ linearized = <<>>
  /\ strategy = "none"
  /\ ParserIdle
  /\ ValidateIdle
  /\ ComponentIdle
  /\ TxIdle
  /\ FieldsIdle

CallLinearizeAbi ==
  /\ strategy = "none"
  /\ linearized' = linearizeAbi(abi)
  /\ strategy' = "singleRow"
  /\ UNCHANGED <<abi, parserVars, validateVars, componentVars, txVars,
                 fieldVars>>

CallLinearizeAbiFlat ==
  /\ strategy = "none"
  /\ linearized' = linearizeAbi_flat(abi)
  /\ strategy' = "flatten"
  /\ UNCHANGED <<abi, parserVars, validateVars, componentVars, txVars,
                 fieldVars>>

NextLinearize == CallLinearizeAbi \/ CallLinearizeAbiFlat

SpecLinearize == InitLinearize /\ [][NextLinearize]_vars

TypeOKLinearize ==
  /\ strategy \in {"none", "singleRow", "flatten"}
  /\ strategy = "singleRow" => Len(linearized) = Len(abi)
(***************************************************************************)
(* Properties of the linearizers.  The definitions of this section         *)
(* describe the parameter tree directly.                                   *)
(***************************************************************************)
\* "tuple", or "tuple" followed by array brackets
IsTupleTyped(t) == IsPrefix(W_tuple, t) /\ (Len(t) = 5 \/ t[6] = "[")

SuffixOf(t) == SubSeq(t, 6, Len(t))

\* The name an entry goes by: the declared name, or "param" and the
\* 0-based position among the siblings when there is none.
EntryName(node, position) ==
  IF node.name # <<>> THEN node.name ELSE W_param \o <<DigitChars[position + 1]>>

RECURSIVE ExpandedType(_), WrittenComponents(_, _)
ExpandedType(node) ==
  IF ~IsTupleTyped(node.type) THEN node.type
  ELSE <<"(">> \o WrittenComponents(node.components, Len(node.components))
       \o <<")">> \o SuffixOf(node.type)

\* The first n components as "<type> <name>", joined by ", "
WrittenComponents(cs, n) ==
  IF n = 0 THEN <<>>
  ELSE WrittenComponents(cs, n - 1)
       \o (IF n > 1 THEN <<",", " ">> ELSE <<>>)
       \o ExpandedType(cs[n]) \o <<" ">> \o EntryName(cs[n], n - 1)

\* The type text without its array suffix.
WithoutArraySuffix(t) ==
  LET cuts == {j \in 1..(Len(t) - 1) :
                 t[j] = ")" /\ IsArraySuffix(SubSeq(t, j + 1, Len(t)))}
  IN IF cuts = {} THEN t ELSE SubSeq(t, 1, CHOOSE j \in cuts : TRUE)

ArraySuffixOf(t) == SubSeq(t, Len(WithoutArraySuffix(t)) + 1, Len(t))

\* parseTypeSignature on an expanded type (its array suffix set aside)
\* gives the components' names and types in order, and so on recursively
\* for the components that are tuples.  An unnamed component is read back
\* under its entry name.
RECURSIVE ReadsBack(_, _)
ReadsBack(typeText, components) ==
  LET fields == parseTypeSignature(WithoutArraySuffix(typeText)) IN
  /\ Len(fields) = Len(components)
  /\ \A k \in 1..Len(components) :
       /\ fields[k].name = EntryName(components[k], k - 1)
       /\ IF IsTupleTyped(components[k].type)
          THEN /\ ArraySuffixOf(fields[k].type) = SuffixOf(components[k].type)
               /\ ReadsBack(fields[k].type, components[k].components)
          ELSE fields[k].type = components[k].type

\* C7: for every tuple-typed entry of linearizeAbi (tuple arrays and
\* tuples with unnamed components included), parseTypeSignature on the
\* entry's expanded type reproduces the components' name/type pairs in
\* order, recursively for nested tuple components.
C7_ExpandedTypeReadsBack ==
  strategy = "singleRow" =>
    \A k \in 1..Len(abi) :
      IsTupleTyped(abi[k].type) =>
        ReadsBack(linearized[k].type, abi[k].components)

NestedArrayInput ==
  [type |-> W_tuple \o <<"[", "3", "]", "[", "]">>, name |-> <<"a">>,
   components |->
     <<[type |-> W_tuple, name |-> <<"a">>,
        components |-> <<[type |-> W_uint8, name |-> <<"a">>]>>]>>]

C8_WitnessLeafUnchanged ==
  /\ strategy = "singleRow"
  /\ Len(abi) = 2
  /\ abi[1].type = W_tuple
  /\ abi[2].type = W_uint8
  /\ linearized[2].type = W_uint8

\* The positions of the nodes of a parameter tree: <<i>> for the i-th
\* input, <<i, j>> for its j-th component, and so on.
RECURSIVE PositionsIn(_)
PositionsIn(forest) ==
  UNION {{<<k>>} \cup
         (IF "components" \in DOMAIN forest[k]
          THEN {<<k>> \o q : q \in PositionsIn(forest[k].components)}
          ELSE {}) : k \in 1..Len(forest)}

RECURSIVE NodeAt(_, _)
NodeAt(forest, pos) ==
  IF Len(pos) = 1 THEN forest[pos[1]]
  ELSE NodeAt(forest[pos[1]].components, Tail(pos))

\* Pre-order: an ancestor before its descendants, siblings left to right.
Precedes(p, q) ==
  \E i \in 1..(Len(p) + 1) :
    /\ i <= Len(q)
    /\ \A j \in 1..(i - 1) : p[j] = q[j]
    /\ i = Len(p) + 1 \/ p[i] < q[i]

RECURSIVE PreOrder(_)
PreOrder(S) ==
  IF S = {} THEN <<>>
  ELSE LET first == CHOOSE p \in S : \A q \in S \ {p} : Precedes(p, q)
       IN <<first>> \o PreOrder(S \ {first})

\* The declared names of the ancestors of the node at pos, each followed
\* by a dot; an ancestor without a declared name adds nothing.
RECURSIVE DottedAncestors(_, _, _)
DottedAncestors(forest, pos, n) ==
  IF n = 0 THEN <<>>
  ELSE LET ancestor == NodeAt(forest, SubSeq(pos, 1, n)) IN
       DottedAncestors(forest, pos, n - 1)
       \o (IF ancestor.name # <<>> THEN ancestor.name \o <<".">> ELSE <<>>)

C9_WitnessSingleRow ==
  /\ strategy = "singleRow"
  /\ Len(abi) = 2
  /\ "components" \in DOMAIN abi[1]
  /\ Len(linearized) = 2

\* No two parameters of one list declare the same name, at any level.
RECURSIVE DeclaredNamesDistinct(_)
DeclaredNamesDistinct(forest) ==
  /\ \A i, j \in 1..Len(forest) :
       (i # j /\ forest[i].name # <<>>) => forest[i].name # forest[j].name
  /\ \A k \in 1..Len(forest) :
       "components" \in DOMAIN forest[k] =>
         DeclaredNamesDistinct(forest[k].components)

\* C10: every entry returned by linearizeAbi has a non-empty name and no
\* two entries of one result share a name, also when a declared name looks
\* like a synthetic one and when an unnamed tuple has unnamed components.
C10_EntryNamesAreKeys ==
  (strategy # "none" /\ DeclaredNamesDistinct(abi)) =>
    /\ \A i \in 1..Len(linearized) : linearized[i].name # <<>>
    /\ \A i, j \in 1..Len(linearized) :
         i # j => linearized[i].name # linearized[j].name

(***************************************************************************)
(* SolidityInput: validateInput and validateSingleValue.                   *)
(*                                                                         *)
(* A BigInt is a record [neg, mag]: mag is the magnitude as a sequence of  *)
(* decimal digits, least significant first, without high-order zeros       *)
(* (<<>> is zero); neg is TRUE only for a non-zero magnitude.  A thrown    *)
(* exception is the value Thrown.                                          *)
(***************************************************************************)
Thrown == [thrown |-> TRUE]
IsThrown(x) == "thrown" \in DOMAIN x

Big(neg, mag) == [neg |-> neg /\ mag # <<>>, mag |-> mag]
BigZero == Big(FALSE, <<>>)

HexLower ==
  <<"0", "1", "2", "3", "4", "5", "6", "7", "8", "9",
    "a", "b", "c", "d", "e", "f">>
HexUpper ==
  <<"0", "1", "2", "3", "4", "5", "6", "7", "8", "9",
    "A", "B", "C", "D", "E", "F">>

\* [0-9a-fA-F]
isHexChar(c) == \E i \in 1..16 : HexLower[i] = c \/ HexUpper[i] = c

\* \d
isDecimalChar(c) == \E i \in 1..10 : HexLower[i] = c

digitValue(c) == (CHOOSE i \in 1..16 : HexLower[i] = c \/ HexUpper[i] = c) - 1

\* mag * m + carry on magnitudes
RECURSIVE mulAdd(_, _, _)
mulAdd(mag, m, carry) ==
  IF mag = <<>>
    THEN IF carry = 0 THEN <<>>
         ELSE <<carry % 10>> \o mulAdd(<<>>, m, carry \div 10)
    ELSE LET v == Head(mag) * m + carry
         IN  <<v % 10>> \o mulAdd(Tail(mag), m, v \div 10)

\* the number written by at most four digit characters
RECURSIVE smallValue(_, _)
smallValue(ds, base) ==
  IF ds = <<>> THEN 0
  ELSE smallValue(SubSeq(ds, 1, Len(ds) - 1), base) * base
         + digitValue(ds[Len(ds)])

\* the magnitude written by the digit characters ds in the given base,
\* read four characters at a time
RECURSIVE magnitudeOf(_, _)
magnitudeOf(ds, base) ==
  IF ds = <<>> THEN <<>>
  ELSE LET k == IF Len(ds) >= 4 THEN 4 ELSE Len(ds)
           front == SubSeq(ds, 1, Len(ds) - k)
           chunk == SubSeq(ds, Len(ds) - k + 1, Len(ds))
       IN  mulAdd(magnitudeOf(front, base), base ^ k, smallValue(chunk, base))

allDigitsOfBase(ds, base) ==
  /\ ds # <<>>
  /\ \A i \in 1..Len(ds) : isHexChar(ds[i]) /\ digitValue(ds[i]) < base

\* BigInt(string): StringToBigInt.  Surrounding whitespace is dropped, the
\* empty text is 0n, a 0x/0o/0b prefix selects the base and takes no
\* sign, a decimal literal takes an optional sign; anything else throws
\* SyntaxError.
BigInt(str) ==
  LET s == trim(str)
      prefixed == Len(s) >= 2 /\ s[1] = "0"
                    /\ s[2] \in {"x", "X", "o", "O", "b", "B"}
      base == IF s[2] \in {"x", "X"} THEN 16
              ELSE IF s[2] \in {"o", "O"} THEN 8 ELSE 2
      signed == s # <<>> /\ s[1] \in {"+", "-"}
      body == IF signed THEN Tail(s) ELSE s
  IN  IF s = <<>> THEN BigZero
      ELSE IF prefixed
        THEN IF allDigitsOfBase(SubSeq(s, 3, Len(s)), base)
               THEN Big(FALSE, magnitudeOf(SubSeq(s, 3, Len(s)), base))
               ELSE Thrown
      ELSE IF allDigitsOfBase(body, 10)
        THEN Big(s[1] = "-", magnitudeOf(body, 10))
        ELSE Thrown

\* a < b on magnitudes
RECURSIVE magLess(_, _)
magLess(a, b) ==
  IF Len(a) # Len(b) THEN Len(a) < Len(b)
  ELSE IF a = <<>> THEN FALSE
  ELSE IF a[Len(a)] # b[Len(b)] THEN a[Len(a)] < b[Len(b)]
  ELSE magLess(SubSeq(a, 1, Len(a) - 1), SubSeq(b, 1, Len(b) - 1))

\* x < y and x > y on BigInt
bigLess(x, y) ==
  IF x.neg /\ ~y.neg THEN TRUE
  ELSE IF ~x.neg /\ y.neg THEN FALSE
  ELSE IF x.neg THEN magLess(y.mag, x.mag)
  ELSE magLess(x.mag, y.mag)

bigGreater(x, y) == bigLess(y, x)

\* 2^n as a magnitude
RECURSIVE pow2(_)
pow2(n) ==
  IF n = 0 THEN <<1>>
  ELSE IF n >= 16 THEN mulAdd(pow2(n - 16), 65536, 0)
  ELSE mulAdd(pow2(n - 1), 2, 0)

\* Number values: NaN, or an integer
NaN == [nan |-> TRUE]
Num(n) == [nan |-> FALSE, n |-> n]

\* the value of the longest prefix of decimal digits, NaN when there is none
RECURSIVE digitsPrefixValue(_, _, _)
digitsPrefixValue(s, i, acc) ==
  IF i <= Len(s) /\ isDecimalChar(s[i])
    THEN digitsPrefixValue(s, i + 1, acc * 10 + digitValue(s[i]))
    ELSE acc

\* parseInt(string): leading whitespace is skipped, a sign is read, and
\* the longest prefix of digits is the value; NaN when there is no digit.
\* (No width in the inputs of this model starts with 0x.)
parseInt(str) ==
  LET s == trimStart(str)
      signed == s # <<>> /\ s[1] \in {"+", "-"}
      body == IF signed THEN Tail(s) ELSE s
      n == digitsPrefixValue(body, 1, 0)
  IN  IF body = <<>> \/ ~isDecimalChar(body[1]) THEN NaN
      ELSE Num(IF s[1] = "-" THEN 0 - n ELSE n)

\* number - 1
minusOne(x) == IF x.nan THEN NaN ELSE Num(x.n - 1)

\* BigInt(1) << BigInt(bits): BigInt(NaN) throws RangeError; a negative
\* count shifts right, which leaves 0n.
oneShiftedLeft(bits) ==
  IF bits.nan THEN Thrown
  ELSE IF bits.n < 0 THEN BigZero
  ELSE Big(FALSE, pow2(bits.n))

\* mag - 1 for a non-zero magnitude
RECURSIVE magMinusOne(_)
magMinusOne(mag) ==
  IF Head(mag) > 0
    THEN IF Len(mag) = 1 /\ Head(mag) = 1 THEN <<>>
         ELSE <<Head(mag) - 1>> \o Tail(mag)
    ELSE <<9>> \o magMinusOne(Tail(mag))

\* x - BigInt(1) for x >= 0
bigMinusOne(x) ==
  IF x.mag = <<>> THEN Big(TRUE, <<1>>) ELSE Big(FALSE, magMinusOne(x.mag))

\* -x
bigNegate(x) == Big(~x.neg, x.mag)

\* string.indexOf(p), 1-based; NotFound when p does not occur
indexOf(s, p) ==
  IF includes(s, p)
    THEN CHOOSE i \in 1..(Len(s) - Len(p) + 1) :
           /\ SubSeq(s, i, i + Len(p) - 1) = p
           /\ \A j \in 1..(i - 1) : SubSeq(s, j, j + Len(p) - 1) # p
    ELSE NotFound

\* string.replace(p, ''): the first occurrence of p is removed
removeFirst(s, p) ==
  LET i == indexOf(s, p)
  IN  IF i = NotFound THEN s
      ELSE SubSeq(s, 1, i - 1) \o SubSeq(s, i + Len(p), Len(s))

W_uint == <<"u", "i", "n", "t">>
W_int == <<"i", "n", "t">>
W_int256 == <<"i", "n", "t", "2", "5", "6">>
W_string == <<"s", "t", "r", "i", "n", "g">>
W_bytes == <<"b", "y", "t", "e", "s">>
W_true == <<"t", "r", "u", "e">>
W_false == <<"f", "a", "l", "s", "e">>
W_0x == <<"0", "x">>

allHex(s) == \A i \in 1..Len(s) : isHexChar(s[i])

\* /^0x[0-9a-fA-F]{40}$/
matchesAddress(v) ==
  Len(v) = 42 /\ startsWith(v, W_0x) /\ allHex(SubSeq(v, 3, Len(v)))

\* /^0x[0-9a-fA-F]*$/
matchesBytes(v) == startsWith(v, W_0x) /\ allHex(SubSeq(v, 3, Len(v)))

\* /^0x[0-9a-fA-F]+$/
matchesHexDigits(v) == Len(v) >= 3 /\ matchesBytes(v)

\* /^bytes\d+$/
matchesBytesN(t) ==
  /\ startsWith(t, W_bytes)
  /\ Len(t) > 5
  /\ \A i \in 6..Len(t) : isDecimalChar(t[i])

\* size * 2 + 2: two hex characters for each byte and the 0x prefix
expectedLength_noPrefix(size) == size * 2

expectedLength(size) == size * 2 + 2

\* !value.trim() && value !== 'false'
isEmptyValue(v) == trim(v) = <<>> /\ v # W_false

\* The try block of validateInput: the message of the error it throws for
\* the value, "" when it throws none.  The message of a SyntaxError or a
\* RangeError raised by BigInt is the engine's; it is not empty.
validateInputError(type, inputValue) ==
  IF startsWith(type, W_uint) THEN
    LET value == BigInt(inputValue)
        bits == parseInt(removeFirst(type, W_uint))
        shifted == oneShiftedLeft(bits)
    IN  IF IsThrown(value) THEN "Cannot convert to a BigInt"
        ELSE IF bigLess(value, BigZero)
          THEN "Unsigned integer cannot be negative"
        ELSE IF type # W_uint256
          THEN IF IsThrown(shifted) THEN "Cannot convert NaN to a BigInt"
               ELSE IF bigGreater(value, bigMinusOne(shifted))
                 THEN "Value exceeds maximum for type"
               ELSE ""
        ELSE ""
  ELSE IF startsWith(type, W_int) THEN
    LET value == BigInt(inputValue)
        bits == parseInt(removeFirst(type, W_int))
        shifted == oneShiftedLeft(minusOne(bits))
    IN  IF IsThrown(value) THEN "Cannot convert to a BigInt"
        ELSE IF type # W_int256
          THEN IF IsThrown(shifted) THEN "Cannot convert NaN to a BigInt"
               ELSE IF \/ bigGreater(value, bigMinusOne(shifted))
                       \/ bigLess(value, bigNegate(shifted))
                 THEN "Value out of range for type"
               ELSE ""
        ELSE ""
  ELSE IF type = W_bool THEN
    IF inputValue # W_true /\ inputValue # W_false
      THEN "Boolean must be true or false" ELSE ""
  ELSE IF type = W_address THEN
    IF ~matchesAddress(inputValue)
      THEN "Invalid Ethereum address format" ELSE ""
  ELSE IF type = W_string THEN ""
  ELSE IF type = W_bytes THEN
    IF ~matchesBytes(inputValue)
      THEN "Bytes must be hex format starting with 0x" ELSE ""
  ELSE IF matchesBytesN(type) THEN
    LET size == parseInt(removeFirst(type, W_bytes))
    IN  IF ~startsWith(inputValue, W_0x) THEN "Bytes must start with 0x"
        ELSE IF Len(inputValue) # expectedLength(size.n)
          THEN "must be exactly size bytes"
        ELSE IF ~matchesHexDigits(inputValue)
          THEN "Bytes must contain only hex characters"
        ELSE ""
  ELSE "Unsupported type"

\* What one call of validateInput does: what it returns, the error and
\* isValid it sets and the onChange call it makes (none of the three when
\* it returns early for a tuple, an array or a string).
validateInput(type, isTuple, isArray, inputValue) ==
  IF isTuple \/ isArray \/ type = W_string
    THEN [returned |-> TRUE, skipped |-> TRUE, error |-> "",
          onChange |-> <<>>]
  ELSE IF isEmptyValue(inputValue)
    THEN [returned |-> FALSE, skipped |-> FALSE,
          error |-> "Value cannot be empty",
          onChange |-> <<[value |-> inputValue, isValid |-> FALSE]>>]
  ELSE LET e == validateInputError(type, inputValue)
       IN  [returned |-> e = "", skipped |-> FALSE, error |-> e,
            onChange |-> <<[value |-> inputValue, isValid |-> e = ""]>>]

\* The try block of validateSingleValue: TRUE when it reaches return true
validateSingleValueBody(itemType, itemValue) ==
  IF startsWith(itemType, W_uint) THEN
    LET value == BigInt(itemValue)
        bits == parseInt(removeFirst(itemType, W_uint))
        shifted == oneShiftedLeft(bits)
    IN  IF IsThrown(value) THEN FALSE
        ELSE IF bigLess(value, BigZero) THEN FALSE
        ELSE IF itemType # W_uint256
          THEN IF IsThrown(shifted) THEN FALSE
               ELSE ~bigGreater(value, bigMinusOne(shifted))
        ELSE TRUE
  ELSE IF startsWith(itemType, W_int) THEN
    LET value == BigInt(itemValue)
        bits == parseInt(removeFirst(itemType, W_int))
        shifted == oneShiftedLeft(minusOne(bits))
    IN  IF IsThrown(value) THEN FALSE
        ELSE IF itemType # W_int256
          THEN IF IsThrown(shifted) THEN FALSE
               ELSE ~(\/ bigGreater(value, bigMinusOne(shifted))
                      \/ bigLess(value, bigNegate(shifted)))
        ELSE TRUE
  ELSE IF itemType = W_bool THEN
    ~(itemValue # W_true /\ itemValue # W_false)
  ELSE IF itemType = W_address THEN matchesAddress(itemValue)
  ELSE IF itemType = W_string THEN TRUE
  ELSE IF itemType = W_bytes THEN matchesBytes(itemValue)
  ELSE IF matchesBytesN(itemType) THEN
    LET size == parseInt(removeFirst(itemType, W_bytes))
    IN  IF ~startsWith(itemValue, W_0x) THEN FALSE
        ELSE IF Len(itemValue) # expectedLength(size.n) THEN FALSE
        ELSE matchesHexDigits(itemValue)
  ELSE FALSE

validateSingleValue(itemValue, itemType) ==
  IF itemType = W_tuple THEN TRUE
  ELSE IF isEmptyValue(itemValue) THEN FALSE
  ELSE validateSingleValueBody(itemType, itemValue)

\* type.replace(/\[\d*\]$/, ''): a trailing [digits] is removed
stripArraySuffix(type) ==
  LET opens == {i \in 1..Len(type) :
                  /\ type[i] = "["
                  /\ type[Len(type)] = "]"
                  /\ i < Len(type)
                  /\ \A j \in (i + 1)..(Len(type) - 1) : isDecimalChar(type[j])}
  IN  IF opens = {} THEN type
      ELSE SubSeq(type, 1, (CHOOSE i \in opens : TRUE) - 1)

\* isTuple and isArray as the effect on the type prop sets them
isTupleOf(type) ==
  IF startsWith(type, <<"(">>) /\ includes(type, <<")">>) THEN TRUE
  ELSE stripArraySuffix(type) = W_tuple

isArrayOf(type) ==
  IF startsWith(type, <<"(">>) /\ includes(type, <<")">>)
    THEN includes(type, <<"[", "]">>)
    ELSE includes(type, <<"[">>)

(***************************************************************************)
(* Inputs of the validators: type names and value texts.                   *)
(***************************************************************************)
\* the decimal text of a BigInt
RECURSIVE magnitudeText(_)
magnitudeText(mag) ==
  IF mag = <<>> THEN <<>>
  ELSE magnitudeText(Tail(mag)) \o <<HexLower[Head(mag) + 1]>>

decimalText(x) ==
  (IF x.neg THEN <<"-">> ELSE <<>>)
    \o (IF x.mag = <<>> THEN <<"0">> ELSE magnitudeText(x.mag))

TypeNames ==
  { W_uint8, W_uint \o <<"1", "6">>, W_uint256, W_uint,
    W_uint \o <<"7">>, W_uint \o <<"2", "6", "4">>,
    W_int \o <<"8">>, W_int256, W_int, W_int \o <<"0">>,
    W_bool, W_address, W_string, W_tuple,
    W_bytes, W_bytes \o <<"0">>, W_bytes \o <<"1">>, W_bytes \o <<"4">>,
    W_bytes \o <<"3", "2">>, W_bytes \o <<"3", "3">>,
    <<"U">> \o Tail(W_uint8), <<"A">> \o Tail(W_address),
    <<"B">> \o Tail(W_bool), <<"f", "o", "o">>,
    W_uint8 \o <<"[", "]">> }

\* the widths whose range ends are among the value texts
BoundaryWidths == {7, 8, 16, 255, 256, 264}

BoundaryValues ==
  UNION { { Big(FALSE, pow2(w)), bigMinusOne(Big(FALSE, pow2(w))),
            Big(TRUE, pow2(w)), Big(TRUE, mulAdd(pow2(w), 1, 1)) } :
          w \in BoundaryWidths }

SmallTexts ==
  { <<>>, <<" ">>, <<" ", TAB>>, W_true, W_false, <<"0">>, <<"1">>,
    <<"-", "1">>, <<"-", "0">>, <<"+", "5">>, <<" ", "1", "2", " ">>,
    <<"1", ".", "5">>, <<"1", "e", "3">>, <<"a", "b", "c">>,
    <<"0", "x", "1", "0">>, <<"0", "x", "f", "f">>,
    <<"0", "x", "1", "0", "0">>, <<"0", "X", "1", "0">>,
    <<"-", "0", "x", "1">>, <<"T", "r", "u", "e">> }

\* n hexadecimal characters
hexBody(n) == [i \in 1..n |-> HexUpper[((i * 7) % 16) + 1]]

MaxHexDigits == 67   \* hexadecimal characters after the 0x of a value text

ValueTexts(maxHexDigits) ==
  SmallTexts \cup {decimalText(x) : x \in BoundaryValues}
    \cup UNION { { W_0x \o hexBody(n),
                   W_0x \o hexBody(n) \o <<"g">>,
                   hexBody(n + 2),
                   W_0x \o hexBody(n) \o <<" ">> } : n \in 0..maxHexDigits }

(***************************************************************************)
(* The validators as a state machine: one call on one (type, value).       *)
(***************************************************************************)
NotCalled == [returned |-> FALSE, skipped |-> FALSE, error |-> "",
              onChange |-> <<>>]

InitValidate ==
  /\ vType \in TypeNames
  /\ vValue \in ValueTexts(MaxHexDigits)
  /\ vCall = "none"
  /\ vOut = NotCalled
  /\ ParserIdle
  /\ LinIdle
  /\ ComponentIdle
  /\ TxIdle
  /\ FieldsIdle

CallValidateInput ==
  /\ vCall = "none"
  /\ vOut' = validateInput(vType, isTupleOf(vType), isArrayOf(vType), vValue)
  /\ vCall' = "validateInput"
  /\ UNCHANGED <<vType, vValue, parserVars, linearizeVars, componentVars, txVars,
                 fieldVars>>

CallValidateSingleValue ==
  /\ vCall = "none"
  /\ vOut' = [NotCalled EXCEPT !.returned = validateSingleValue(vValue, vType)]
  /\ vCall' = "validateSingleValue"
  /\ UNCHANGED <<vType, vValue, parserVars, linearizeVars, componentVars, txVars,
                 fieldVars>>

NextValidate == CallValidateInput \/ CallValidateSingleValue

SpecValidate == InitValidate /\ [][NextValidate]_vars

(***************************************************************************)
(* Properties of the validators.  The definitions of this section          *)
(* describe the types and the value texts directly.                        *)
(***************************************************************************)
SupportedWidths == {n \in 8..256 : n % 8 = 0}

\* the width an integer type name declares; 0 when it is not uint, uintN
\* or intN for a supported N
DeclaredWidth(t) ==
  IF t = W_uint THEN 256
  ELSE IF \E n \in SupportedWidths : t \in {W_uint \o decimal(n), W_int \o decimal(n)}
    THEN CHOOSE n \in SupportedWidths :
           t \in {W_uint \o decimal(n), W_int \o decimal(n)}
  ELSE 0

IsUnsignedType(t) == DeclaredWidth(t) > 0 /\ t[1] = "u"
IsSignedType(t) == DeclaredWidth(t) > 0 /\ t[1] = "i"

\* lo <= x <= hi
Within(x, lo, hi) == ~bigLess(x, lo) /\ ~bigGreater(x, hi)

\* the text is read as an integer that lies in the range of the type
IntegerInRange(t, v) ==
  LET x == BigInt(v)
      n == DeclaredWidth(t)
  IN  /\ trim(v) # <<>>
      /\ ~IsThrown(x)
      /\ IF IsUnsignedType(t)
           THEN Within(x, BigZero, bigMinusOne(Big(FALSE, pow2(n))))
           ELSE Within(x, Big(TRUE, pow2(n - 1)),
                       bigMinusOne(Big(FALSE, pow2(n - 1))))

\* C11: for uint, uintN and intN (N a multiple of 8 from 8 to 256, 256
\* included) both validators accept a text exactly when it reads as an
\* integer within the range of the type: 0 .. 2^N - 1 for uintN (uint
\* being uint256), -2^(N-1) .. 2^(N-1) - 1 for intN.
C11_IntegerRangeEveryWidth ==
  (vCall # "none" /\ DeclaredWidth(vType) > 0) =>
    (vOut.returned <=> IntegerInRange(vType, vValue))

HexCharSet ==
  {"0", "1", "2", "3", "4", "5", "6", "7", "8", "9",
   "a", "b", "c", "d", "e", "f", "A", "B", "C", "D", "E", "F"}

\* "0x" followed by exactly n hexadecimal characters
IsHexOfLength(v, n) ==
  /\ Len(v) = n + 2
  /\ v[1] = "0" /\ v[2] = "x"
  /\ \A i \in 3..Len(v) : v[i] \in HexCharSet

\* N when the type name is bytesN with 1 <= N <= 32, 0 otherwise
BytesSize(t) ==
  IF \E n \in 1..32 : t = W_bytes \o decimal(n)
    THEN CHOOSE n \in 1..32 : t = W_bytes \o decimal(n)
    ELSE 0

\* C12: both validators accept a value for address exactly when it is 0x
\* and 40 hexadecimal characters, for bytesN (1 <= N <= 32) exactly when
\* it is 0x and 2N hexadecimal characters, and for bytes exactly when it
\* is 0x and any number of hexadecimal characters.
C12_FixedLengthHexExact ==
  vCall # "none" =>
    /\ vType = W_address => (vOut.returned <=> IsHexOfLength(vValue, 40))
    /\ BytesSize(vType) > 0 =>
         (vOut.returned <=> IsHexOfLength(vValue, 2 * BytesSize(vType)))
    /\ vType = W_bytes =>
         (vOut.returned <=> \E n \in 0..Len(vValue) : IsHexOfLength(vValue, n))

W_bytes4 == W_bytes \o <<"4">>

\* bytes4 accepts a text of 10 characters and has rejected one of 8, and
\* address has rejected 41 hexadecimal characters
C12_Witness ==
  /\ vCall = "validateInput"
  /\ vType = W_bytes4
  /\ Len(vValue) = 10
  /\ vOut.returned
  /\ vOut.onChange = <<[value |-> vValue, isValid |-> TRUE]>>

C12_WitnessRejected ==
  /\ vCall = "validateSingleValue"
  /\ vType = W_address
  /\ IsHexOfLength(vValue, 41)
  /\ ~vOut.returned

\* a type name of one of the supported families, or an array of one
IsSupportedType(t) ==
  \/ DeclaredWidth(t) > 0
  \/ t = W_int
  \/ t \in {W_bool, W_address, W_string, W_bytes, W_tuple}
  \/ BytesSize(t) > 0
  \/ t[Len(t)] = "]"

\* C13: for a type name outside the supported families (an integer width
\* that is not a multiple of 8 from 8 to 256, bytesN with N outside
\* 1..32, a name in another letter case, any other name) both validators
\* reject every value.
C13_UnsupportedTypeRejected ==
  (vCall # "none" /\ ~IsSupportedType(vType)) => ~vOut.returned

\* a type that is validated directly: not a tuple and not an array
IsPrimitiveType(t) == t # W_tuple /\ t[Len(t)] # "]" /\ t[1] # "("

\* C14: in validateInput and in validateSingleValue alike, a string value
\* is always valid (the empty and the whitespace-only text included), the
\* empty text is invalid for every other directly validated type, and
\* 'false' is valid for bool.
C14_SameEmptyValueRule ==
  (vCall # "none" /\ IsPrimitiveType(vType)) =>
    /\ vType = W_string => vOut.returned
    /\ (vType # W_string /\ vValue = <<>>) => ~vOut.returned
    /\ (vType = W_bool /\ vValue = W_false) => vOut.returned

(***************************************************************************)
(* AbiInput: the value preview formatters.                                 *)
(*                                                                         *)
(* A stored value is a JavaScript string.  It is modelled as one of        *)
(*   - [text |-> characters]: that text;                                   *)
(*   - [obj |-> entries]: the text JSON.stringify gives for the object     *)
(*     with these entries, in this key order, entries being a sequence of  *)
(*     [key, val] with distinct keys and val a stored value (a string);    *)
(*   - [arr |-> items]: the text JSON.stringify gives for the array of     *)
(*     these stored values.                                                *)
(* These are the objects and arrays SolidityInput hands to onChange: all   *)
(* their values are strings.  The characters of a [text |-> ..] are never  *)
(* a well-formed object or array: such a text that starts with "{" or "["  *)
(* is a malformed one.                                                     *)
(***************************************************************************)
Text(chars) == [text |-> chars]
IsObj(s) == "obj" \in DOMAIN s
IsArr(s) == "arr" \in DOMAIN s

\* JSON.stringify of a string: quotes around it, '"' and '\' escaped
quoteJson(chars) ==
  LET escaped == [i \in 1..Len(chars) |->
                    IF chars[i] \in {"\"", "\\"} THEN <<"\\", chars[i]>>
                    ELSE <<chars[i]>>]
  IN  <<"\"">> \o concat(escaped) \o <<"\"">>

\* the characters of a stored value
RECURSIVE textOf(_)
textOf(s) ==
  IF IsObj(s) THEN
    <<"{">> \o join([i \in 1..Len(s.obj) |->
                       quoteJson(s.obj[i].key) \o <<":">>
                         \o quoteJson(textOf(s.obj[i].val))], <<",">>)
      \o <<"}">>
  ELSE IF IsArr(s) THEN
    <<"[">> \o join([i \in 1..Len(s.arr) |-> quoteJson(textOf(s.arr[i]))],
                    <<",">>)
      \o <<"]">>
  ELSE s.text

\* string.startsWith(c) and string.endsWith(c) for one character c
startsWithChar(s, c) ==
  IF IsObj(s) THEN c = "{" ELSE IF IsArr(s) THEN c = "["
  ELSE s.text # <<>> /\ s.text[1] = c

endsWithChar(s, c) ==
  IF IsObj(s) THEN c = "}" ELSE IF IsArr(s) THEN c = "]"
  ELSE s.text # <<>> /\ s.text[Len(s.text)] = c

allDecimal(t) == t # <<>> /\ \A i \in 1..Len(t) : isDecimalChar(t[i])

\* the JSON number grammar, exponents left out: -? int (. digits)?
isJsonNumber(t) ==
  LET wellFormed(intPart, fraction) ==
        /\ allDecimal(intPart) /\ allDecimal(fraction)
        /\ (Len(intPart) = 1 \/ intPart[1] # "0")
      splitAt(body, dot) ==
        wellFormed(IF dot = NotFound THEN body ELSE SubSeq(body, 1, dot - 1),
                   IF dot = NotFound THEN <<"0">>
                   ELSE SubSeq(body, dot + 1, Len(body)))
      unsigned(body) == splitAt(body, indexOf(body, <<".">>))
  IN  unsigned(IF t # <<>> /\ t[1] = "-" THEN Tail(t) ELSE t)

\* JSON.parse(text): the parsed value, or Thrown for a SyntaxError.  An
\* object or an array comes from its structured form; other text is a
\* number, true, false, null or a quoted string, and anything else is
\* not JSON.
jsonParse(s) ==
  IF IsObj(s) THEN [kind |-> "object", entries |-> s.obj]
  ELSE IF IsArr(s) THEN [kind |-> "array", items |-> s.arr]
  ELSE LET parsedText(t) ==
             IF isJsonNumber(t) THEN [kind |-> "number"]
             ELSE IF t \in {W_true, W_false} THEN [kind |-> "boolean"]
             ELSE IF t = <<"n", "u", "l", "l">> THEN [kind |-> "null"]
             ELSE IF /\ Len(t) >= 2 /\ t[1] = "\"" /\ t[Len(t)] = "\""
                     /\ \A i \in 2..(Len(t) - 1) : t[i] \notin {"\"", "\\"}
               THEN [kind |-> "string"]
             ELSE Thrown
       IN  parsedText(trim(s.text))

\* !isNaN(Number(text)): the text is empty or blank, a 0x literal, or an
\* optionally signed decimal literal (exponents left out)
isNumberText(text) ==
  LET isNumber(t, digits) ==
        \/ t = <<>>
        \/ Len(t) >= 3 /\ t[1] = "0" /\ t[2] \in {"x", "X"}
             /\ allHex(SubSeq(t, 3, Len(t)))
        \/ allDecimal(digits)
      digitsOf(body, dot) ==
        IF dot = NotFound THEN body
        ELSE SubSeq(body, 1, dot - 1) \o SubSeq(body, dot + 1, Len(body))
      unsigned(body) == digitsOf(body, indexOf(body, <<".">>))
      trimmed(t) ==
        isNumber(t, unsigned(IF t # <<>> /\ t[1] \in {"+", "-"} THEN Tail(t)
                             ELSE t))
  IN  trimmed(trim(text))

\* the entry of an object for a key: <<>> when the key is not in it
entryOf(entries, key) == SelectSeq(entries, LAMBDA e : e.key = key)

\* formatTuple(tupleValue): Text(what it returns), or Thrown
RECURSIVE formatTuple(_)
formatTuple(tupleValue) ==
  IF startsWithChar(tupleValue, "(") /\ endsWithChar(tupleValue, ")")
    THEN Text(textOf(tupleValue))
  ELSE
    LET looksNested(e) ==
          startsWithChar(e.val, "{") /\ endsWithChar(e.val, "}")
        \* try { formatTuple(..) } catch { '(...)' }
        nestedText(r) ==
          IF IsThrown(r) THEN <<"(", ".", ".", ".", ")">> ELSE r.text
        otherText(val) ==
          IF val \in {W_true, W_false} \/ isNumberText(val) THEN val
          ELSE IF val[1] = "\"" /\ val[Len(val)] = "\"" THEN val
          ELSE <<"\"">> \o val \o <<"\"">>
        nestedTupleValues(tupleKeys) ==
          [i \in 1..Len(tupleKeys) |->
             nestedText(formatTuple(tupleKeys[i].val))]
        otherValues(otherKeys) ==
          [i \in 1..Len(otherKeys) |-> otherText(textOf(otherKeys[i].val))]
        formatted(tupleObj) ==
          IF IsThrown(tupleObj) THEN Thrown
          ELSE IF tupleObj.kind # "object" THEN Text(<<"(", ")">>)
          ELSE Text(<<"(">>
                      \o join(otherValues(
                                SelectSeq(tupleObj.entries,
                                          LAMBDA e : ~looksNested(e)))
                                \o nestedTupleValues(
                                     SelectSeq(tupleObj.entries, looksNested)),
                              <<",", " ">>)
                      \o <<")">>)
    IN  formatted(jsonParse(tupleValue))

\* val.replace(/^"|"$/g, ''): a leading and a trailing double quote go
stripQuotes(val) ==
  LET rest == IF val # <<>> /\ val[1] = "\"" THEN Tail(val) ELSE val
  IN  IF rest # <<>> /\ rest[Len(rest)] = "\""
        THEN SubSeq(rest, 1, Len(rest) - 1) ELSE rest

isTupleSignature(type) ==
  startsWith(type, <<"(">>) /\ endsWith(type, <<")">>)

\* the placeholder pushed for a field the object does not hold
Placeholder_blank == <<>>

Placeholder == <<".", ".", ".">>

\* formatTupleWithStructure(value, typeSignature): Text(what it
\* returns), or Thrown
RECURSIVE formatTupleWithStructure(_, _)
formatTupleWithStructure(value, typeSignature) ==
  LET \* try { formatTupleWithStructure(..) } catch { formatTuple(..) }
      orFormatTuple(nested, val) ==
        IF IsThrown(nested) THEN formatTuple(val) ELSE nested
      formatValue(f, val) ==
        IF isTupleSignature(f.type)
          THEN orFormatTuple(formatTupleWithStructure(val, f.type), val)
        ELSE IF f.type = W_string
          THEN Text(<<"\"">> \o stripQuotes(textOf(val)) \o <<"\"">>)
        ELSE Text(textOf(val))
      formatFound(f, found) ==
        IF f.name = <<>> \/ found = <<>> THEN Text(Placeholder)
        ELSE formatValue(f, found[1].val)
      formatField(tupleObj, f) ==
        formatFound(f, entryOf(tupleObj.entries, f.name))
      joined(formattedValues) ==
        IF \E i \in 1..Len(formattedValues) : IsThrown(formattedValues[i])
          THEN Thrown
        ELSE Text(<<"(">>
                    \o join([i \in 1..Len(formattedValues) |->
                               formattedValues[i].text], <<",", " ">>)
                    \o <<")">>)
      withTypes(tupleObj, typesWithNames) ==
        IF typesWithNames = <<>> THEN formatTuple(value)
        ELSE joined([i \in 1..Len(typesWithNames) |->
                       formatField(tupleObj, typesWithNames[i])])
      formatted(tupleObj) ==
        IF IsThrown(tupleObj) THEN Thrown
        ELSE IF tupleObj.kind # "object" THEN Text(<<"(", ")">>)
        ELSE withTypes(tupleObj, parseTypeSignature(typeSignature))
  IN  formatted(jsonParse(value))

\* the array branch of formatValueForPreview; it catches what it throws
formatArrayForPreview(value, type) ==
  LET \* try { formatTuple(item) } catch { '(...)' }
      tupleText(r) ==
        IF IsThrown(r) THEN <<"(", ".", ".", ".", ")">> ELSE r.text
      formatItem(baseType, item) ==
        IF startsWith(baseType, W_string)
          THEN <<"\"">> \o textOf(item) \o <<"\"">>
        ELSE IF startsWith(baseType, W_tuple) \/ startsWith(baseType, <<"(">>)
          THEN tupleText(formatTuple(item))
        ELSE textOf(item)
      formatted(baseType, parsedArray) ==
        IF IsThrown(parsedArray) THEN Text(<<"[", "]">>)
        ELSE IF parsedArray.kind # "array" THEN Text(<<"[", "]">>)
        ELSE Text(<<"[">>
                    \o join([i \in 1..Len(parsedArray.items) |->
                               formatItem(baseType, parsedArray.items[i])],
                            <<",", " ">>)
                    \o <<"]">>)
  IN  formatted(stripArraySuffix(type), jsonParse(value))

\* formatValueForPreview(value, type): Text(what it returns), or Thrown
\* when an exception leaves it
formatValueForPreview(value, type) ==
  LET \* try { formatTupleWithStructure(..) } catch { formatTuple(value) }
      orFormatTuple(formatted) ==
        IF IsThrown(formatted) THEN formatTuple(value) ELSE formatted
      \* try { formatTuple(value) } catch { '()' }
      orParens(r) == IF IsThrown(r) THEN Text(<<"(", ")">>) ELSE r
      ofText(text) ==
        IF type = W_string THEN Text(<<"\"">> \o text \o <<"\"">>)
        ELSE IF text = <<>> THEN Text(<<>>)
        ELSE IF text = <<"[", "]">> THEN Text(<<"[", "]">>)
        ELSE IF isTupleSignature(type)
          THEN orFormatTuple(formatTupleWithStructure(value, type))
        ELSE IF includes(type, <<"[">>) THEN formatArrayForPreview(value, type)
        ELSE IF startsWith(type, W_tuple) \/ startsWith(type, <<"(">>)
          THEN orParens(formatTuple(value))
        ELSE Text(text)
  IN  ofText(textOf(value))

(***************************************************************************)
(* Inputs of the formatters: types and stored values.                      *)
(***************************************************************************)
K_a == <<"a">>
K_b == <<"b">>
K_c == <<"c">>
K_n == <<"n">>
K_s == <<"s">>
K_z == <<"z">>

\* (uint8 c, string s)
InnerSignature ==
  <<"(">> \o W_uint8 \o <<" ", "c", ",", " ">> \o W_string \o <<" ", "s", ")">>

\* (uint8 a, string s)
FlatSignature ==
  <<"(">> \o W_uint8 \o <<" ", "a", ",", " ">> \o W_string \o <<" ", "s", ")">>

\* (uint8 a, (uint8 c, string s) n, bool b)
NestedSignature ==
  <<"(">> \o W_uint8 \o <<" ", "a", ",", " ">> \o InnerSignature
    \o <<" ", "n", ",", " ">> \o W_bool \o <<" ", "b", ")">>

FormatTypes ==
  { W_string, W_uint8, W_uint8 \o <<"[", "]">>, W_string \o <<"[", "]">>,
    W_tuple, W_tuple \o <<"[", "]">>,
    FlatSignature, NestedSignature, FlatSignature \o <<"[", "]">> }

LeafValues ==
  { Text(<<"1">>), Text(<<"a", "b", "c">>), Text(<<"\"", "q", "\"">>) }

\* the sequences of at most n entries with distinct keys, the value of a
\* key being one of valuesFor[key]
RECURSIVE EntrySeqs(_, _, _)
EntrySeqs(keys, valuesFor, n) ==
  IF n = 0 THEN {<<>>}
  ELSE LET shorter == EntrySeqs(keys, valuesFor, n - 1)
       IN  shorter \cup
             { Append(es, [key |-> k, val |-> v]) :
                 <<es, k, v>> \in
                   { t \in shorter \X keys \X UNION {valuesFor[k] : k \in keys} :
                       /\ Len(t[1]) = n - 1
                       /\ \A i \in 1..Len(t[1]) : t[1][i].key # t[2]
                       /\ t[3] \in valuesFor[t[2]] } }

InnerObjects ==
  { [obj |-> es] :
      es \in EntrySeqs({K_c, K_s}, [k \in {K_c, K_s} |-> {Text(<<"1">>)}], 2) }

\* what the entry n of a tuple value may hold: an inner object, or a text
\* that is not one
InnerValues == InnerObjects \cup {Text(<<"{">>), Text(<<"(", "1", ")">>)}

MaxEntries == 3   \* entries of one tuple value

TupleValues(maxEntries) ==
  { [obj |-> es] :
      es \in EntrySeqs({K_a, K_s, K_n, K_b, K_z},
                       [k \in {K_a, K_s, K_n, K_b, K_z} |->
                          IF k = K_n THEN InnerValues
                          ELSE IF k \in {K_a, K_s} THEN LeafValues
                          ELSE {Text(<<"1">>)}],
                       maxEntries) }

ArrayValues ==
  { [arr |-> items] :
      items \in UNION { [1..n -> {Text(<<"1">>), Text(<<"{">>),
                                  [obj |-> <<[key |-> K_a, val |-> Text(<<"1">>)]>>]}] :
                        n \in 0..2 } }

TextValues ==
  { Text(<<>>), Text(<<"[", "]">>), Text(<<"1", "0", "0">>),
    Text(<<"a", "b", "c">>), Text(<<"(", "1", ",", " ", "2", ")">>),
    Text(<<"{">>), Text(<<"[", "1">>), Text(<<"n", "u", "l", "l">>),
    Text(<<"\"", "q", "\"">>) }

StoredValues(maxEntries) ==
  TupleValues(maxEntries) \cup ArrayValues \cup TextValues

(***************************************************************************)
(* The formatters as a state machine: one call on one (value, type).       *)
(***************************************************************************)
InitFormat ==
  /\ vType \in FormatTypes
  /\ vValue \in StoredValues(MaxEntries)
  /\ vCall = "none"
  /\ vOut = NotCalled
  /\ ParserIdle
  /\ LinIdle
  /\ ComponentIdle
  /\ TxIdle
  /\ FieldsIdle

CallFormatValueForPreview ==
  /\ vCall = "none"
  /\ vOut' = formatValueForPreview(vValue, vType)
  /\ vCall' = "formatValueForPreview"
  /\ UNCHANGED <<vType, vValue, parserVars, linearizeVars, componentVars, txVars,
                 fieldVars>>

CallFormatTupleWithStructure ==
  /\ vCall = "none"
  /\ isTupleSignature(vType)
  /\ vOut' = formatTupleWithStructure(vValue, vType)
  /\ vCall' = "formatTupleWithStructure"
  /\ UNCHANGED <<vType, vValue, parserVars, linearizeVars, componentVars, txVars,
                 fieldVars>>

NextFormat == CallFormatValueForPreview \/ CallFormatTupleWithStructure

SpecFormat == InitFormat /\ [][NextFormat]_vars

(***************************************************************************)
(* Properties of the formatters.                                           *)
(***************************************************************************)
KeysOf(value) == {value.obj[i].key : i \in 1..Len(value.obj)}

ValueAt(value, key) ==
  value.obj[CHOOSE i \in 1..Len(value.obj) : value.obj[i].key = key].val

\* the value is a JSON object, and so is, at every depth, what it holds
\* for a field whose type is a tuple signature
RECURSIVE IsTupleValueFor(_, _)
IsTupleValueFor(value, sig) ==
  /\ IsObj(value)
  /\ \A f \in {parseTypeSignature(sig)[i] : i \in 1..Len(parseTypeSignature(sig))} :
       (f.name \in KeysOf(value) /\ IsTupleText(f.type)) =>
         IsTupleValueFor(ValueAt(value, f.name), f.type)

RECURSIVE WithCommaSpace(_)
WithCommaSpace(items) ==
  IF items = <<>> THEN <<>>
  ELSE IF Len(items) = 1 THEN items[1]
  ELSE items[1] \o <<",", " ">> \o WithCommaSpace(Tail(items))

\* the text the claim describes for a tuple value and its signature
RECURSIVE DeclaredOrderText(_, _)
DeclaredOrderText(value, sig) ==
  LET fields == parseTypeSignature(sig)
      element(f) ==
        IF f.name \notin KeysOf(value) THEN <<".", ".", ".">>
        ELSE IF IsTupleText(f.type)
          THEN DeclaredOrderText(ValueAt(value, f.name), f.type)
        ELSE IF f.type = W_string
          THEN <<"\"">> \o stripQuotes(ValueAt(value, f.name).text) \o <<"\"">>
        ELSE ValueAt(value, f.name).text
  IN  <<"(">> \o WithCommaSpace([i \in 1..Len(fields) |-> element(fields[i])])
        \o <<")">>

Reversed(seq) == [i \in 1..Len(seq) |-> seq[Len(seq) + 1 - i]]

\* C16: for a tuple value (a JSON object, its nested tuples included)
\* formatTupleWithStructure returns "(" + one element for each field of
\* parseTypeSignature(typeSignature), in declared order, joined by ", "
\* + ")": "..." for a field the object does not hold, the recursive text
\* for a nested tuple field, the value in double quotes for a string
\* field, the value itself otherwise; and the same text whatever the
\* order of the keys in the object.
C16_DeclaredFieldOrder ==
  (vCall = "formatTupleWithStructure" /\ IsTupleValueFor(vValue, vType)) =>
    /\ ~IsThrown(vOut)
    /\ vOut.text = DeclaredOrderText(vValue, vType)
    /\ formatTupleWithStructure([obj |-> Reversed(vValue.obj)], vType) = vOut

\* the object {n: {s: .., c: ..}, b: ..}, its keys in another order than
\* the fields (uint8 a, (uint8 c, string s) n, bool b), a missing
C16_Witness ==
  /\ vCall = "formatTupleWithStructure"
  /\ vType = NestedSignature
  /\ IsTupleValueFor(vValue, vType)
  /\ Len(vValue.obj) = 2
  /\ vValue.obj[1].key = K_n /\ vValue.obj[2].key = K_b
  /\ IsObj(vValue.obj[1].val)
  /\ Len(vValue.obj[1].val.obj) = 2
  /\ vValue.obj[1].val.obj[1].key = K_s
  /\ vValue.obj[2].val = Text(<<"1">>)
  /\ vOut = Text(<<"(", ".", ".", ".", ",", " ",
                   "(", "1", ",", " ", "\"", "1", "\"", ")", ",", " ", "1", ")">>)

\* C17: formatValueForPreview returns a string for every value and type,
\* a tuple-typed field whose value is not JSON included; no exception
\* leaves it.
C17_FormattingNeverThrows ==
  vCall = "formatValueForPreview" => ~IsThrown(vOut)

(***************************************************************************)
(* combineTx: the arguments of the value preview and the calldata.         *)
(*                                                                         *)
(* An argument handed to the encoder is a record with its kind: a string,  *)
(* a boolean, a number or an array.  A number is a JavaScript number: the  *)
(* double nearest to the literal, kept as a BigInt of the model for an     *)
(* integer literal, with the digits of the fraction beside it.             *)
(***************************************************************************)
StringArg(text) == [kind |-> "string", text |-> text]
BooleanArg(b) == [kind |-> "boolean", value |-> b]
NumberArg(int, fraction) ==
  [kind |-> "number", int |-> int, fraction |-> fraction]
ArrayArg(items) == [kind |-> "array", items |-> items]

\* the digits of mag div d, read from the most significant digit
RECURSIVE magDiv(_, _, _)
magDiv(mag, d, carry) ==
  IF mag = <<>> THEN <<>>
  ELSE magDiv(SubSeq(mag, 1, Len(mag) - 1), d,
              (carry * 10 + mag[Len(mag)]) % d)
         \o <<(carry * 10 + mag[Len(mag)]) \div d>>

\* mag div d and mag % d for a small d
quotient(mag, d) ==
  LET stripped(q) ==
        SubSeq(q, 1, IF \A i \in 1..Len(q) : q[i] = 0 THEN 0
                     ELSE CHOOSE i \in 1..Len(q) :
                            q[i] # 0 /\ \A j \in (i + 1)..Len(q) : q[j] = 0)
  IN  stripped(magDiv(mag, d, 0))

RECURSIVE remainderFrom(_, _, _, _)
remainderFrom(mag, d, i, carry) ==
  IF i = 0 THEN carry
  ELSE remainderFrom(mag, d, i - 1, (carry * 10 + mag[i]) % d)

remainder(mag, d) == remainderFrom(mag, d, Len(mag), 0)

isOdd(mag) == mag # <<>> /\ mag[1] % 2 = 1

\* mag * 2^n
RECURSIVE timesPow2(_, _)
timesPow2(mag, n) ==
  IF n = 0 THEN mag
  ELSE IF n >= 16 THEN mulAdd(timesPow2(mag, n - 16), 65536, 0)
  ELSE mulAdd(timesPow2(mag, n - 1), 2, 0)

\* the width of the significand of a double
SignificandBits == 53

\* the double nearest to mant * 2^shift + (the bits shifted out), ties to
\* the even significand: round is the bit shifted out last, sticky
\* whether a bit shifted out before it was set.  Sixteen bits are shifted
\* out at a time while there are that many.
RECURSIVE roundToDouble(_, _, _, _)
roundToDouble(mant, shift, round, sticky) ==
  LET sixteen(low) ==
        roundToDouble(quotient(mant, 65536), shift + 16, low >= 32768,
                      sticky \/ round \/ low % 32768 # 0)
  IN  IF ~magLess(mant, pow2(SignificandBits + 16))
        THEN sixteen(remainder(mant, 65536))
      ELSE IF ~magLess(mant, pow2(SignificandBits))
        THEN roundToDouble(quotient(mant, 2), shift + 1, isOdd(mant),
                           sticky \/ round)
      ELSE timesPow2(IF round /\ (sticky \/ isOdd(mant))
                       THEN mulAdd(mant, 1, 1) ELSE mant,
                     shift)

\* the Number an integer literal gives (parseInt(text, 10) and the number
\* of JSON.parse): the nearest double
toDouble(mag) == roundToDouble(mag, 0, FALSE, FALSE)

\* /^-?\d+(\.\d+)?$/
matchesNumber(t) ==
  LET wellFormed(intPart, fraction) ==
        allDecimal(intPart) /\ allDecimal(fraction)
      splitAtDot(body, dot) ==
        wellFormed(IF dot = NotFound THEN body ELSE SubSeq(body, 1, dot - 1),
                   IF dot = NotFound THEN <<"0">>
                   ELSE SubSeq(body, dot + 1, Len(body)))
      unsignedBody(body) == splitAtDot(body, indexOf(body, <<".">>))
  IN  unsignedBody(IF t # <<>> /\ t[1] = "-" THEN Tail(t) ELSE t)

\* the Number of a literal that matches /^-?\d+(\.\d+)?$/
numberOf(t) ==
  LET ofParts(negative, body, dot) ==
        NumberArg(Big(negative,
                      toDouble(magnitudeOf(
                        IF dot = NotFound THEN body
                        ELSE SubSeq(body, 1, dot - 1), 10))),
                  IF dot = NotFound THEN <<>>
                  ELSE SubSeq(body, dot + 1, Len(body)))
      ofBody(negative, body) == ofParts(negative, body, indexOf(body, <<".">>))
  IN  ofBody(t[1] = "-", IF t[1] = "-" THEN Tail(t) ELSE t)

\* string.substring(1, string.length - 1): the two indices are swapped
\* when the string is one character long
withoutEnds(trimmed) ==
  IF Len(trimmed) = 1 THEN trimmed
  ELSE SubSeq(trimmed, 2, Len(trimmed) - 1)

\* the index where the loop over a quoted literal stops: the first
\* quoteChar from index from on that no backslash precedes, or the length
\* of the string when there is none
closingQuote(s, from, quoteChar) ==
  LET closes == {i \in from..Len(s) : s[i] = quoteChar /\ s[i - 1] # "\\"}
  IN  IF closes = {} THEN Len(s)
      ELSE CHOOSE i \in closes : \A j \in closes : i <= j

\* processNestedTuples(argsString): ArrayArg(the arguments), or Thrown.
\* processArg calls it for the text inside a tuple; for the tuple text
\* "(" alone it calls itself on the same text without end (RangeError).
\* The branch for a text in square brackets is never taken: combineTx
\* has replaced every square bracket.
RECURSIVE processNestedTuples(_)
RECURSIVE processArg(_)
RECURSIVE tupleScan(_, _, _, _, _)
processArg(arg) ==
  LET classified(trimmed) ==
        IF startsWith(trimmed, <<"(">>) /\ endsWith(trimmed, <<")">>)
          THEN IF Len(trimmed) = 1 THEN Thrown
               ELSE processNestedTuples(withoutEnds(trimmed))
        ELSE IF \/ startsWith(trimmed, <<"\"">>) /\ endsWith(trimmed, <<"\"">>)
                \/ startsWith(trimmed, <<"'">>) /\ endsWith(trimmed, <<"'">>)
          THEN StringArg(withoutEnds(trimmed))
        ELSE IF matchesAddress(trimmed) THEN StringArg(trimmed)
        ELSE IF trimmed = W_true THEN BooleanArg(TRUE)
        ELSE IF trimmed = W_false THEN BooleanArg(FALSE)
        ELSE IF matchesNumber(trimmed) THEN numberOf(trimmed)
        ELSE StringArg(trimmed)
  IN  classified(trim(arg))

\* the index of the first character from index from on that the loop of
\* processNestedTuples does more with than add it to currentArg, or the
\* index after the last character
nextSpecial(s, from) ==
  LET specials == {i \in from..Len(s) : s[i] \in {"(", ")", ",", "\"", "'"}}
  IN  IF specials = {} THEN Len(s) + 1
      ELSE CHOOSE i \in specials : \A j \in specials : i <= j

\* the loop of processNestedTuples: currentArg is the text from index
\* argStart up to the character before currentPos; the characters that
\* are only added to currentArg are passed in one step
tupleScan(s, currentPos, argStart, parenDepth, result) ==
  LET currentArg == SubSeq(s, argStart, currentPos - 1)
      upTo(last) == SubSeq(s, argStart, last)
      pushed(arg) ==
        IF trim(arg) # <<>> THEN Append(result, processArg(arg)) ELSE result
      step(char) ==
        IF char = "(" /\ (trim(currentArg) = <<>> \/ parenDepth > 0)
          THEN tupleScan(s, currentPos + 1, argStart, parenDepth + 1, result)
        ELSE IF char = ")" /\ parenDepth > 0
          THEN IF /\ parenDepth = 1
                  /\ (currentPos = Len(s) \/ s[currentPos + 1] = ",")
                 THEN tupleScan(s, currentPos + 1, currentPos + 1, 0,
                                Append(result, processArg(upTo(currentPos))))
               ELSE tupleScan(s, currentPos + 1, argStart, parenDepth - 1,
                              result)
        ELSE IF char = "," /\ parenDepth = 0
          THEN tupleScan(s, currentPos + 1, currentPos + 1, 0,
                         pushed(currentArg))
        ELSE IF char \in {"\"", "'"}
          THEN tupleScan(s, closingQuote(s, currentPos + 1, char) + 1,
                         argStart, parenDepth, result)
        ELSE tupleScan(s, nextSpecial(s, currentPos + 1), argStart,
                       parenDepth, result)
  IN  IF currentPos > Len(s) THEN pushed(currentArg) ELSE step(s[currentPos])

processNestedTuples(argsString) ==
  LET returned(result) ==
        IF \E i \in 1..Len(result) : IsThrown(result[i]) THEN Thrown
        ELSE ArrayArg(result)
  IN  returned(tupleScan(argsString, 1, 1, 0, <<>>))

\* the map callback of the branch without tuples
processedArg(arg) ==
  LET processed(trimmedArg) ==
        IF \/ startsWith(trimmedArg, <<"\"">>) /\ endsWith(trimmedArg, <<"\"">>)
           \/ startsWith(trimmedArg, <<"[">>) /\ endsWith(trimmedArg, <<"]">>)
           \/ startsWith(trimmedArg, <<"{">>) /\ endsWith(trimmedArg, <<"}">>)
          THEN trimmedArg
        ELSE IF matchesAddress(trimmedArg)
          THEN <<"\"">> \o trimmedArg \o <<"\"">>
        ELSE IF matchesNumber(trimmedArg) THEN trimmedArg
        ELSE <<"\"">> \o trimmedArg \o <<"\"">>
  IN  processed(trim(arg))

\* argsString.split(',').map(..).join(',') between "[" and "]"
processedWrappedArgs(argsString) ==
  LET mapped(args) == [i \in 1..Len(args) |-> processedArg(args[i])]
  IN  <<"[">> \o join(mapped(split(argsString, ",")), <<",">>) \o <<"]">>

\* JSON.parse of the text of an array, from the element at index pos on:
\* the elements, or <<Thrown>> for a SyntaxError.  The texts of the model
\* hold no backslash, no brace and no control character, so an element
\* is a string that ends at the next double quote, or a number.
RECURSIVE jsonElements(_, _, _)
jsonElements(t, pos, result) ==
  LET skipped(i) ==
        IF \E j \in i..Len(t) : t[j] \notin Whitespace
          THEN CHOOSE j \in i..Len(t) :
                 /\ t[j] \notin Whitespace
                 /\ \A k \in i..(j - 1) : t[k] \in Whitespace
        ELSE Len(t) + 1
      tokenEnd(i) ==
        CHOOSE j \in i..Len(t) :
          /\ t[j] \in Whitespace \cup {",", "]"}
          /\ \A k \in i..(j - 1) : t[k] \notin Whitespace \cup {",", "]"}
      after(value, i) ==
        IF i > Len(t) THEN <<Thrown>>
        ELSE IF t[i] = "," THEN jsonElements(t, i + 1, Append(result, value))
        ELSE IF t[i] = "]" /\ skipped(i + 1) > Len(t)
          THEN Append(result, value)
        ELSE <<Thrown>>
      string(open, close) ==
        IF close > Len(t) \/ t[close] # "\"" THEN <<Thrown>>
        ELSE after(StringArg(SubSeq(t, open + 1, close - 1)),
                   skipped(close + 1))
      number(from, to) ==
        IF isJsonNumber(SubSeq(t, from, to - 1))
          THEN after(numberOf(SubSeq(t, from, to - 1)), skipped(to))
        ELSE <<Thrown>>
      element(i) ==
        IF i > Len(t) THEN <<Thrown>>
        ELSE IF t[i] = "\""
          THEN string(i, IF \E j \in (i + 1)..Len(t) : t[j] = "\""
                         THEN CHOOSE j \in (i + 1)..Len(t) :
                                /\ t[j] = "\""
                                /\ \A k \in (i + 1)..(j - 1) : t[k] # "\""
                         ELSE Len(t) + 1)
        ELSE number(i, tokenEnd(i))
  IN  element(skipped(pos))

\* JSON.parse(processedWrappedArgs): ArrayArg(the elements), or Thrown
jsonParseArgs(text) ==
  LET returned(result) ==
        IF \E i \in 1..Len(result) : IsThrown(result[i]) THEN Thrown
        ELSE ArrayArg(result)
  IN  returned(jsonElements(text, 2, <<>>))

\* argsString.replace(/\[/g, '(').replace(/\]/g, ')')
bracketsReplaced(argsString) ==
  [i \in 1..Len(argsString) |->
     IF argsString[i] = "[" THEN "("
     ELSE IF argsString[i] = "]" THEN ")" ELSE argsString[i]]

\* the inner try block of combineTx: ArrayArg(args), or Thrown
parsedArgs(argsString) ==
  IF includes(argsString, <<"(">>) /\ includes(argsString, <<")">>)
    THEN processNestedTuples(argsString)
  ELSE jsonParseArgs(processedWrappedArgs(argsString))

W_function == <<"f", "u", "n", "c", "t", "i", "o", "n">>

\* functionSignature.trim().startsWith('function') ? functionSignature
\*   : `function ${functionSignature}`
normalizedSignature(functionSignature_) ==
  IF startsWith(trim(functionSignature_), W_function)
    THEN functionSignature_
  ELSE W_function \o <<" ">> \o functionSignature_

\* string.replace(/^function\s+/, '')
withoutKeyword(s) ==
  IF startsWith(s, W_function) /\ Len(s) > 8 /\ s[9] \in Whitespace
    THEN trimStart(SubSeq(s, 9, Len(s)))
  ELSE s

\* match(/^([^(]+)/) of it, trimmed; '' when there is no match
functionNameOf(normalized) ==
  LET beforeParen(s, open) ==
        trim(IF open = NotFound THEN s ELSE SubSeq(s, 1, open - 1))
      matched(s) == beforeParen(s, indexOf(s, <<"(">>))
  IN  matched(withoutKeyword(normalized))

\* what viem does with what it is given: parseAbiItem and
\* encodeFunctionData each return or throw
ViemOutcomes == {"returns", "parseAbiItem throws",
    "encodeFunctionData throws"}

\* the pieces of the messages: ${..} stands for the text put there
FailedToGenerate_blank == ""

FailedToGenerate == "Failed to generate calldata: "
FailedToParse ==
  "Failed to parse args string: ${argsString}. Error: ${parseError.message}"
CouldNotExtract == "Could not extract function name from signature"
ParseAbiItemError == "${the message of the error parseAbiItem throws}"
EncodeFunctionDataError ==
  "${the message of the error encodeFunctionData throws}"

\* new Error(`Failed to generate calldata: ${error.message}`), the message
\* as the sequence of its pieces
Failed(cause, given, args) ==
  [thrown |-> TRUE, message |-> <<FailedToGenerate, cause>>,
   given |-> given, functionName |-> <<>>, args |-> args]

\* combineTx(functionSignature, argsString): the calldata, which is what
\* encodeFunctionData was given (given is the text handed to
\* parseAbiItem), or the Error thrown
combineTx(functionSignature_, argsString_, viem) ==
  LET encoded(given, functionName, args) ==
        IF viem = "parseAbiItem throws"
          THEN Failed(ParseAbiItemError, given, args)
        ELSE IF functionName = <<>>
          THEN Failed(CouldNotExtract, given, args)
        ELSE IF viem = "encodeFunctionData throws"
          THEN Failed(EncodeFunctionDataError, given, args)
        ELSE [thrown |-> FALSE, message |-> <<>>, given |-> given,
              functionName |-> functionName, args |-> args]
      signed(given, args) == encoded(given, functionNameOf(given), args)
      withArgs(argsString, args) ==
        IF IsThrown(args) THEN Failed(FailedToParse, <<>>, args)
        ELSE signed(normalizedSignature(functionSignature_), args)
      replaced(argsString) == withArgs(argsString, parsedArgs(argsString))
  IN  replaced(bracketsReplaced(argsString_))

(***************************************************************************)
(* parseTupleType of SolidityInput: the sub-fields a tuple-typed input     *)
(* renders.                                                                *)
(***************************************************************************)
NameChars ==
  { "a", "b", "c", "d", "e", "f", "g", "h", "i", "j", "k", "l", "m", "n",
    "o", "p", "q", "r", "s", "t", "u", "v", "w", "x", "y", "z",
    "A", "B", "C", "D", "E", "F", "G", "H", "I", "J", "K", "L", "M", "N",
    "O", "P", "Q", "R", "S", "T", "U", "V", "W", "X", "Y", "Z",
    "0", "1", "2", "3", "4", "5", "6", "7", "8", "9", "_" }

Null == [null |-> TRUE]
IsNull(x) == "null" \in DOMAIN x

\* the index where the loop of parseField stops: the first ")" after
\* which as many ")" as "(" have been read; NotFound when there is none
closingIndex(field) ==
  LET count(c, i) == Cardinality({j \in 1..i : field[j] = c})
      closing == {i \in 1..Len(field) :
                    field[i] = ")" /\ count("(", i) = count(")", i)}
  IN  IF closing = {} THEN NotFound
      ELSE CHOOSE i \in closing : \A j \in closing : i <= j

RECURSIVE parseTupleType(_, _)
RECURSIVE parseField(_, _)
RECURSIVE tupleFieldScan(_, _, _, _, _, _)

\* parseField(field); random is what Math.floor(Math.random() * 1000)
\* gives when the nested tuple has no name
parseField(field, random) ==
  IF field = <<>> THEN Null
  ELSE IF startsWith(field, <<"(">>) THEN
    LET closing == closingIndex(field)
        tupleType == SubSeq(field, 1, closing)
        rest == trim(SubSeq(field, closing + 1, Len(field)))
        nameMatch == rest # <<>> /\ \A i \in 1..Len(rest) : rest[i] \in NameChars
    IN  IF closing = NotFound THEN Null
        ELSE [type |-> tupleType,
              name |-> IF nameMatch THEN rest ELSE W_param \o decimal(random),
              isComplex |-> TRUE,
              components |-> parseTupleType(tupleType, random).fields]
  ELSE
    LET parts == split(field, " ")
    IN  IF Len(parts) < 2 THEN Null
        ELSE [type |-> parts[1], name |-> parts[2], isComplex |-> FALSE]

\* the while loop of parseTupleType and the push of the last field
tupleFieldScan(content, currentPos, parenDepth, currentField, fields, random) ==
  LET pushed ==
        IF trim(currentField) = <<>> THEN fields
        ELSE LET parsedField == parseField(trim(currentField), random)
             IN  IF IsNull(parsedField) THEN fields
                 ELSE Append(fields, parsedField)
  IN
  IF currentPos > Len(content) THEN pushed
  ELSE LET char == content[currentPos] IN
    IF char = "("
      THEN tupleFieldScan(content, currentPos + 1, parenDepth + 1,
                          Append(currentField, char), fields, random)
    ELSE IF char = ")" /\ parenDepth > 0
      THEN tupleFieldScan(content, currentPos + 1, parenDepth - 1,
                          Append(currentField, char), fields, random)
    ELSE IF char = "," /\ parenDepth = 0
      THEN tupleFieldScan(content, currentPos + 1, parenDepth, <<>>,
                          pushed, random)
    ELSE tupleFieldScan(content, currentPos + 1, parenDepth,
                        Append(currentField, char), fields, random)

parseTupleType(typeStr, random) ==
  LET isArray == includes(typeStr, <<"[", "]">>)
      baseType == IF isArray THEN stripArraySuffix(typeStr) ELSE typeStr
  IN  IF ~startsWith(baseType, <<"(">>) \/ ~endsWith(baseType, <<")">>)
        THEN [fields |-> <<>>, isArray |-> isArray]
      ELSE [fields |-> tupleFieldScan(SubSeq(baseType, 2, Len(baseType) - 1),
                                      1, 0, <<>>, <<>>, random),
            isArray |-> isArray]

(***************************************************************************)
(* AbiInput: validateAbi.  parseAbiItem is viem's: the abi prop carries,   *)
(* next to its text, what parseAbiItem does with that text (the item it    *)
(* returns, or the exception it throws).                                   *)
(***************************************************************************)
Undefined == [undefined |-> TRUE]
IsUndefined(x) == "undefined" \in DOMAIN x

ThrownError(message) == [thrown |-> TRUE, isError |-> TRUE, message |-> message]

CannotBeEmpty == "ABI cannot be empty"
InvalidFormat == "Invalid ABI format"

MustBeFunction_blank == ""

MustBeFunction == "ABI must be a function"

W_anonymousFunction == <<"a", "n", "o", "n", "y", "m", "o", "u", "s", "F",
    "u", "n", "c", "t", "i", "o", "n">>

\* comp.type === 'tuple' || comp.type.startsWith('tuple[')
isTupleOrTupleArray(type) == type = W_tuple \/ startsWith(type, W_tuple \o <<"[">>)

RECURSIVE formatTupleTypeWithComponents(_)
formatTupleTypeWithComponents(input) ==
  IF ~hasComponents(input) \/ input.components = <<>> THEN input.type
  ELSE
    LET written(comp) ==
          IF isTupleOrTupleArray(comp.type)
          THEN trim(formatTupleTypeWithComponents(comp) \o <<" ">> \o comp.name)
          ELSE trim(comp.type \o <<" ">> \o comp.name)
        componentsStr ==
          join([k \in 1..Len(input.components) |-> written(input.components[k])],
               <<",", " ">>)
    IN  IF input.type = W_tuple THEN <<"(">> \o componentsStr \o <<")">>
        ELSE IF startsWith(input.type, W_tuple \o <<"[">>)
          THEN <<"(">> \o componentsStr \o <<")">> \o substringFrom(input.type, 5)
        ELSE input.type

\* the signature validateAbi stores: `${functionName}(${inputParams})`
functionSignatureOf(parsedAbi) ==
  LET functionName ==
        IF parsedAbi.name # <<>> THEN parsedAbi.name ELSE W_anonymousFunction
      written(input) ==
        (IF isTupleOrTupleArray(input.type)
           THEN formatTupleTypeWithComponents(input) ELSE input.type)
        \o (IF input.name # <<>> THEN <<" ">> \o input.name ELSE <<>>)
      inputParams ==
        join([k \in 1..Len(parsedAbi.inputs) |-> written(parsedAbi.inputs[k])],
             <<",", " ">>)
  IN  functionName \o <<"(">> \o inputParams \o <<")">>

\* validateAbi(abiString): what it returns and the state it sets; set is
\* FALSE when it leaves linearizedAbi and functionSignature alone
validateAbi(abiString, parsedAbi) ==
  LET failed(message) ==
        [returned |-> FALSE, isValid |-> FALSE, error |-> message,
         set |-> FALSE, linearizedAbi |-> <<>>, functionSignature |-> <<>>]
  IN  IF trim(abiString) = <<>> THEN failed(CannotBeEmpty)
      ELSE IF IsThrown(parsedAbi)
        THEN failed(IF parsedAbi.isError THEN parsedAbi.message
                    ELSE InvalidFormat)
      ELSE IF IsUndefined(parsedAbi) THEN failed(InvalidFormat)
      ELSE IF parsedAbi.type # "function" THEN failed(MustBeFunction)
      ELSE [returned |-> TRUE, isValid |-> TRUE, error |-> "",
            set |-> TRUE,
            linearizedAbi |-> linearizeAbi(parsedAbi.inputs),
            functionSignature |-> functionSignatureOf(parsedAbi)]

(***************************************************************************)
(* AbiInput: handleParamChange and the effects.                            *)
(***************************************************************************)
EmptyText == Text(<<>>)

\* values[name] || ''
valueOr(values, name) ==
  IF name \in DOMAIN values THEN values[name] ELSE EmptyText

\* { ...prev, [name]: value }
withKey(prev, name, value) == (name :> value) @@ prev

\* the root parameters: (!param.path || param.path === '') && param.name
rootParams(linearizedAbi_) ==
  SelectSeq(linearizedAbi_, LAMBDA param : param.path = <<>> /\ param.name # <<>>)

\* formattedValues.join(', ') over the root parameters, for a value map;
\* Thrown when formatValueForPreview throws for one of them
previewOf(values, linearizedAbi_) ==
  LET joined(formattedValues) ==
        IF \E k \in 1..Len(formattedValues) : IsThrown(formattedValues[k])
          THEN Thrown
        ELSE Text(join([k \in 1..Len(formattedValues) |->
                          formattedValues[k].text], <<",", " ">>))
      formatted(params) ==
        joined([k \in 1..Len(params) |->
                  formatValueForPreview(valueOr(values, params[k].name),
                                        params[k].type)])
  IN  formatted(rootParams(linearizedAbi_))

\* the map the preview of handleParamChange is computed from: the
\* paramValues of the render the handler was created in
closureValues(renderedValues, currentValues) == renderedValues

\* handleParamChange(name, value, isValid) on the state s = {paramValues,
\* paramValidity, valuePreview} as the calls before it left it, for a
\* handler created in the render r
handleParamChange(s, r, name, value, isValid_) ==
  LET \* setValuePreview(formattedValues.join(', ')), not reached when
      \* the formatting throws
      previewSet(preview) ==
        IF IsThrown(preview) THEN s.valuePreview ELSE preview.text
      updated(updatedParamValues) ==
        previewSet(previewOf(updatedParamValues, r.linearizedAbi))
  IN  [paramValues |-> withKey(s.paramValues, name, value),
       paramValidity |-> withKey(s.paramValidity, name, isValid_),
       valuePreview |->
         updated(withKey(closureValues(r.paramValues, s.paramValues),
                         name, value))]

\* the calls of onChange, one after the other
RECURSIVE handleParamChanges(_, _, _, _)
handleParamChanges(s, r, name, calls) ==
  IF calls = <<>> THEN s
  ELSE handleParamChanges(
         handleParamChange(s, r, name, calls[1].value, calls[1].isValid),
         r, name, Tail(calls))

\* the initial values effect: param.type is a tuple type
isTupleParam(type) ==
  \/ startsWith(type, W_tuple)
  \/ includes(type, W_tuple \o <<"[">>)
  \/ (startsWith(type, <<"(">>) /\ includes(type, <<")">>))

namesOf(linearizedAbi_) ==
  {linearizedAbi_[k].name : k \in 1..Len(linearizedAbi_)} \ {<<>>}

typeOfParam(linearizedAbi_, name) ==
  linearizedAbi_[CHOOSE k \in 1..Len(linearizedAbi_) :
                   linearizedAbi_[k].name = name].type

initialValues(linearizedAbi_) ==
  [name \in namesOf(linearizedAbi_) |-> EmptyText]

initialValidity(linearizedAbi_) ==
  [name \in namesOf(linearizedAbi_) |->
     LET type == typeOfParam(linearizedAbi_, name)
     IN  isTupleParam(type) \/ type = W_string]

isFormValid_withoutValidity(r, encodes) ==
  /\ r.functionSignature # <<>>
  /\ r.valuePreview # <<>>
  /\ encodes

\* isFormValid of a render; encodes is whether combineTx returns for the
\* signature and the preview
isFormValid(r, encodes) ==
  /\ \A name \in DOMAIN r.paramValidity : r.paramValidity[name]
  /\ r.functionSignature # <<>>
  /\ r.valuePreview # <<>>
  /\ encodes

\* the calldata combineTx returns: what it was computed from
Calldata(functionSignature_, valuePreview_) ==
  [signature |-> functionSignature_, args |-> valuePreview_]

\* setBytecode(''): no calldata
NoBytecode == Calldata(<<>>, <<>>)

(***************************************************************************)
(* SolidityInput: the effects of one child in one commit.  A child is      *)
(* {type, value} (its props at the commit), {isTuple, isArray, baseType}   *)
(* (its state at the commit), what its effects have set since (set), and   *)
(* the effects the commit runs (run).  An array item is never added here:  *)
(* arrayItems is the empty array, set again or not.                        *)
(***************************************************************************)
NoCalls == <<>>

\* the calls of validateInput, the value being the child's value prop or
\* the text typed
reported(calls, value) ==
  [k \in 1..Len(calls) |->
     [value |-> IF calls[k].value = textOf(value) THEN value
                ELSE Text(calls[k].value),
      isValid |-> calls[k].isValid]]

isComplexTuple(type) == startsWith(type, <<"(">>) /\ includes(type, <<")">>)

\* the value holds a JSON array with items
holdsItems(value) ==
  LET parsedValue == jsonParse(value)
  IN  value # EmptyText /\ value # Text(<<"[", "]">>)
      /\ ~IsThrown(parsedValue) /\ parsedValue.kind = "array"
      /\ parsedValue.items # <<>>

\* the type effect: the state it sets and its onChange calls
typeEffect(child) ==
  LET type == child.type
      isTupleArray == parseTupleType(type, 0).isArray
      isArrayType == includes(type, <<"[">>)
      extractedBaseType == stripArraySuffix(type)
      isTupleType == extractedBaseType = W_tuple
      validated == validateInput(type, child.isTuple, child.isArray,
                                 textOf(child.value))
  IN  IF isComplexTuple(type)
        THEN [set |-> [isTuple |-> TRUE, isArray |-> isTupleArray,
                       baseType |-> IF isTupleArray THEN stripArraySuffix(type)
                                    ELSE type,
                       items |-> child.set.items],
              calls |-> NoCalls]
      ELSE
        [set |-> [isTuple |-> isTupleType, isArray |-> isArrayType,
                  baseType |-> extractedBaseType,
                  items |-> child.set.items
                            \/ (~isTupleType /\ isArrayType)],
         calls |->
           IF isTupleType
             THEN <<[value |-> child.value, isValid |-> TRUE]>>
           ELSE IF isArrayType
             THEN IF holdsItems(child.value) THEN NoCalls
                  ELSE <<[value |-> Text(<<"[", "]">>), isValid |-> TRUE]>>
           ELSE IF child.value # EmptyText \/ type = W_string
             THEN reported(validated.onChange, child.value)
           ELSE NoCalls]

\* the value effect
valueEffect(child, set) ==
  LET parsedValue == jsonParse(child.value)
      keepsItems ==
        /\ child.value # EmptyText /\ child.value # Text(<<"[", "]">>)
        /\ ~IsThrown(parsedValue) /\ parsedValue.kind # "array"
  IN  IF child.isArray
        THEN [set |-> [set EXCEPT !.items = @ \/ ~keepsItems],
              calls |-> NoCalls]
      ELSE IF ~child.isTuple
        THEN [set |-> set,
              calls |-> reported(
                validateInput(child.type, child.isTuple, child.isArray,
                              textOf(child.value)).onChange, child.value)]
      ELSE [set |-> set, calls |-> NoCalls]

\* the arrayItems effect
arrayItemsEffect(child) ==
  IF child.isArray THEN <<[value |-> Text(<<"[", "]">>), isValid |-> TRUE]>>
  ELSE NoCalls

\* the effects of the child that the commit runs, in the order they are
\* declared
childEffects(child) ==
  LET after(calls, effect) ==
        [set |-> effect.set, calls |-> calls \o effect.calls]
      thenValue(afterType) ==
        after(afterType.calls,
              IF "value" \in child.run THEN valueEffect(child, afterType.set)
              ELSE [set |-> afterType.set, calls |-> NoCalls])
      thenArrayItems(afterValue) ==
        [set |-> afterValue.set,
         calls |-> afterValue.calls
                   \o (IF "items" \in child.run THEN arrayItemsEffect(child)
                       ELSE NoCalls)]
  IN  thenArrayItems(
        thenValue(IF "type" \in child.run THEN typeEffect(child)
                  ELSE [set |-> child.set, calls |-> NoCalls]))

\* the child as the next commit renders it
mountedChild(type, value) ==
  [type |-> type, value |-> value,
   isTuple |-> FALSE, isArray |-> FALSE, baseType |-> <<>>,
   set |-> [isTuple |-> FALSE, isArray |-> FALSE, baseType |-> <<>>,
            items |-> FALSE],
   run |-> {"type", "value", "items"}]

updatedChild(old, type, value) ==
  [type |-> type, value |-> value,
   isTuple |-> old.set.isTuple, isArray |-> old.set.isArray,
   baseType |-> old.set.baseType,
   set |-> [old.set EXCEPT !.items = FALSE],
   run |-> (IF type # old.type THEN {"type"} ELSE {})
           \cup (IF \/ value # old.value
                    \/ old.set.isArray # old.isArray
                    \/ old.set.baseType # old.baseType
                 THEN {"value"} ELSE {})
           \cup (IF old.set.items \/ old.set.isArray # old.isArray
                 THEN {"items"} ELSE {})]

\* the child has set state that a render has not taken yet
childIsStale(child) ==
  \/ child.set.items
  \/ child.set.isTuple # child.isTuple
  \/ child.set.isArray # child.isArray
  \/ child.set.baseType # child.baseType

(***************************************************************************)
(* The abi props of the model: the default prop, the stories EmptyAbi,     *)
(* WrongAbi and EventAbi, and functions with array, tuple and no           *)
(* parameters.                                                             *)
(***************************************************************************)
Leaf(type, name) == [type |-> type, name |-> name]

FunctionItem(name, inputs) == [type |-> "function", name |-> name, inputs |-> inputs]

W_uint256Array == W_uint256 \o <<"[", "]">>

TransferAbi ==
  [text |-> <<"f", "u", "n", "c", "t", "i", "o", "n", " ", "t", "r", "a",
      "n", "s", "f", "e", "r", "(", "a", "d", "d", "r", "e", "s", "s", " ",
          "t", "o", ",", " ", "u", "i", "n", "t", "2", "5", "6", " ", "a",
              "m", "o", "u", "n", "t", ")">>,
   item |-> FunctionItem(<<"t", "r", "a", "n", "s", "f", "e", "r">>,
              <<Leaf(W_address, <<"t", "o">>), Leaf(W_uint256, <<"a", "m",
                  "o", "u", "n", "t">>)>>)]

ApproveAbi ==
  [text |-> <<"f", "u", "n", "c", "t", "i", "o", "n", " ", "a", "p", "p",
      "r", "o", "v", "e", "(", "a", "d", "d", "r", "e", "s", "s", " ", "t",
          "o", ",", " ", "u", "i", "n", "t", "2", "5", "6", " ", "a", "m",
              "o", "u", "n", "t", ")">>,
   item |-> FunctionItem(<<"a", "p", "p", "r", "o", "v", "e">>,
              <<Leaf(W_address, <<"t", "o">>), Leaf(W_uint256, <<"a", "m",
                  "o", "u", "n", "t">>)>>)]

ArraysAbi ==
  [text |-> <<"f", "u", "n", "c", "t", "i", "o", "n", " ", "f", "(", "u",
      "i", "n", "t", "2", "5", "6", "[", "]", " ", "a", ",", " ", "u", "i",
          "n", "t", "2", "5", "6", "[", "]", " ", "b", ")">>,
   item |-> FunctionItem(<<"f">>,
              <<Leaf(W_uint256Array, <<"a">>), Leaf(W_uint256Array, <<"b">>)>>)]

TupleAbi ==
  [text |-> <<"f", "u", "n", "c", "t", "i", "o", "n", " ", "g", "(", "(",
      "u", "i", "n", "t", "8", " ", "a", ",", " ", "s", "t", "r", "i", "n",
          "g", " ", "s", ")", " ", "t", ")">>,
   item |-> FunctionItem(<<"g">>,
              <<[type |-> W_tuple, name |-> <<"t">>,
                 components |-> <<Leaf(W_uint8, <<"a">>),
                                  Leaf(W_string, <<"s">>)>>]>>)]

PauseAbi ==
  [text |-> <<"f", "u", "n", "c", "t", "i", "o", "n", " ", "p", "a", "u",
      "s", "e", "(", ")">>,
   item |-> FunctionItem(<<"p", "a", "u", "s", "e">>, <<>>)]

EmptyAbi == [text |-> <<>>, item |-> ThrownError("Unknown signature.")]

BlankAbi == [text |-> <<" ", TAB>>, item |-> ThrownError("Unknown signature.")]

WrongAbi ==
  [text |-> <<"f", "u", "n", "c", "t", "i", "o", "n", " ", "d", "e", "p",
      "l", "o", "y", "C", "o", "d", "e", "(", "s", "t", "r", "i", "n", "g",
          "0", " ", "m", "e", "m", "o", "r", "y", " ", "w", "h", "a", "t",
              ",", " ", "b", "y", "t", "e", "s", " ", "m", "e", "m", "o",
                  "r", "y", " ", "a", "r", "g", "s", ")">>,
   item |-> ThrownError("Unknown type.")]

EventAbi ==
  [text |-> <<"e", "v", "e", "n", "t", " ", "T", "r", "a", "n", "s", "f",
      "e", "r", "(", "a", "d", "d", "r", "e", "s", "s", " ", "i", "n", "d",
          "e", "x", "e", "d", " ", "f", "r", "o", "m", ",", " ", "a", "d",
              "d", "r", "e", "s", "s", " ", "i", "n", "d", "e", "x", "e",
                  "d", " ", "t", "o", ",", " ", "u", "i", "n", "t", "2", "5",
                      "6", " ", "v", "a", "l", "u", "e", ")">>,
   item |-> [type |-> "event", name |-> <<"T", "r", "a", "n", "s", "f", "e",
       "r">>,
             inputs |-> <<Leaf(W_address, <<"f", "r", "o", "m">>),
                 Leaf(W_address, <<"t", "o">>),
                          Leaf(W_uint256, <<"v", "a", "l", "u", "e">>)>>]]

AbiProps ==
  { TransferAbi, ApproveAbi, ArraysAbi, TupleAbi, PauseAbi,
    EmptyAbi, BlankAbi, WrongAbi, EventAbi }

ZeroAddress == W_0x \o [i \in 1..40 |-> "0"]

\* what the user types into an input of a type
EditTexts(type) ==
  IF type = W_address THEN {ZeroAddress, <<"0", "x", "1">>}
  ELSE IF type = W_uint256 THEN {<<"1", "0", "0">>, <<"-", "1">>}
  ELSE IF type = W_uint8 THEN {<<"1">>, <<"3", "0", "0">>}
  ELSE IF type = W_string THEN {<<"h", "i">>}
  ELSE {<<"1">>}

(***************************************************************************)
(* AbiInput as a state machine.  State set by a handler or an effect is    *)
(* in the variables at once; a handler or an effect reads the state of     *)
(* the render it was created in (rendered).  The effects of a commit run   *)
(* one after the other, the children's before the component's own          *)
(* (pending); an event or a change of the prop comes when none is left     *)
(* and every state set has been rendered.                                  *)
(***************************************************************************)
EmptyMap == [name \in {} |-> EmptyText]

Snapshot(paramValues_, paramValidity_, linearizedAbi_, valuePreview_,
         functionSignature_) ==
  [paramValues |-> paramValues_, paramValidity |-> paramValidity_,
   linearizedAbi |-> linearizedAbi_, valuePreview |-> valuePreview_,
   functionSignature |-> functionSignature_]

OwnEffect(name) == [kind |-> "own", name |-> name, of |-> <<>>]
ChildEffect(name) == [kind |-> "child", name |-> "effects", of |-> name]

\* since is the last of: the mount, a change of the abi prop, an edit;
\* bytecodes are the bytecodes the onChange of the props was called with,
\* tx what combineTx did when it was called
Did(name, returned, calls, since) ==
  [op |-> name, returned |-> returned, calls |-> calls, since |-> since,
   bytecodes |-> <<>>, tx |-> <<>>]

\* the first render: the state of the useState calls, every effect of the
\* component to run, no child yet
InitAbiInput ==
  /\ abiProp \in AbiProps
  /\ isValid = TRUE
  /\ error = ""
  /\ linearizedAbi = <<>>
  /\ paramValues = EmptyMap
  /\ paramValidity = EmptyMap
  /\ valuePreview = <<>>
  /\ functionSignature = <<>>
  /\ bytecode = NoBytecode
  /\ stale = {}
  /\ rendered = Snapshot(EmptyMap, EmptyMap, <<>>, <<>>, <<>>)
  /\ children = EmptyMap
  /\ pending = <<OwnEffect("mount"), OwnEffect("initialValues"),
                 OwnEffect("abi"), OwnEffect("bytecode")>>
  /\ history = Did("render", FALSE, 0, "mount")
  /\ ParserIdle
  /\ LinIdle
  /\ ValidateIdle
  /\ TxIdle
  /\ FieldsIdle

renderNeeded ==
  stale # {} \/ \E name \in DOMAIN children : childIsStale(children[name])

quiescent == pending = <<>> /\ ~renderNeeded

\* a render after state was set: the children get their props, and the
\* effects whose dependencies changed are to run
Render ==
  /\ pending = <<>>
  /\ renderNeeded
  /\ LET names == IF Len(linearizedAbi) > 0 THEN namesOf(linearizedAbi) ELSE {}
         next == [name \in names |->
                    IF name \in DOMAIN children
                    THEN updatedChild(children[name],
                                      typeOfParam(linearizedAbi, name),
                                      valueOr(paramValues, name))
                    ELSE mountedChild(typeOfParam(linearizedAbi, name),
                                      valueOr(paramValues, name))]
         withEffects ==
           SelectSeq(linearizedAbi,
                     LAMBDA param : param.name \in names /\ next[param.name].run # {})
         own ==
           (IF "linearizedAbi" \in stale THEN <<OwnEffect("initialValues")>>
            ELSE <<>>)
           \o (IF stale \cap {"paramValidity", "functionSignature",
                              "valuePreview", "paramValues"} # {}
               THEN <<OwnEffect("bytecode")>> ELSE <<>>)
     IN  /\ children' = next
         /\ pending' = [k \in 1..Len(withEffects) |->
                          ChildEffect(withEffects[k].name)] \o own
  /\ rendered' = Snapshot(paramValues, paramValidity, linearizedAbi,
                          valuePreview, functionSignature)
  /\ stale' = {}
  /\ history' = [history EXCEPT !.op = "render", !.calls = 0,
                                !.bytecodes = <<>>, !.tx = <<>>]
  /\ UNCHANGED <<abiProp, isValid, error, linearizedAbi, paramValues,
                 paramValidity, valuePreview, functionSignature, bytecode>>
  /\ UNCHANGED <<parserVars, linearizeVars, validateVars, txVars, fieldVars>>

\* onChange called with each of the calls by the child name: the state
\* after handleParamChange has run for each
Reports(name, calls, opName, since) ==
  \E after \in {handleParamChanges(
                   [paramValues |-> paramValues,
                    paramValidity |-> paramValidity,
                    valuePreview |-> valuePreview], rendered, name, calls)} :
    /\ paramValues' = after.paramValues
    /\ paramValidity' = after.paramValidity
    /\ valuePreview' = after.valuePreview
    /\ stale' = stale
                \cup (IF calls # <<>> THEN {"paramValues", "paramValidity"}
                      ELSE {})
                \cup (IF after.valuePreview # valuePreview
                      THEN {"valuePreview"} ELSE {})
    /\ history' = Did(opName, FALSE, Len(calls), since)
    /\ UNCHANGED <<abiProp, isValid, error, linearizedAbi,
                   functionSignature, bytecode, rendered>>
    /\ UNCHANGED <<parserVars, linearizeVars, validateVars, txVars, fieldVars>>

\* the effects of one SolidityInput in this commit
ChildEffects ==
  /\ pending # <<>>
  /\ Head(pending).kind = "child"
  /\ \E done \in {childEffects(children[Head(pending).of])} :
       /\ children' = [children EXCEPT ![Head(pending).of].set = done.set,
                                       ![Head(pending).of].run = {}]
       /\ Reports(Head(pending).of, done.calls, "childEffects",
                  history.since)
  /\ pending' = Tail(pending)

\* validateAbi(abi) in an effect
RunValidateAbi ==
  /\ LET v == validateAbi(abiProp.text, abiProp.item)
     IN  /\ isValid' = v.isValid
         /\ error' = v.error
         /\ linearizedAbi' = IF v.set THEN v.linearizedAbi ELSE linearizedAbi
         /\ functionSignature' =
              IF v.set THEN v.functionSignature ELSE functionSignature
         /\ stale' = stale
              \cup (IF v.isValid # isValid THEN {"isValid"} ELSE {})
              \cup (IF v.error # error THEN {"error"} ELSE {})
              \cup (IF v.set THEN {"linearizedAbi"} ELSE {})
              \cup (IF v.set /\ v.functionSignature # functionSignature
                    THEN {"functionSignature"} ELSE {})
         /\ history' = Did("validateAbi", v.returned, 0, history.since)
  /\ pending' = Tail(pending)
  /\ UNCHANGED <<abiProp, paramValues, paramValidity, valuePreview,
                 bytecode, rendered, children>>
  /\ UNCHANGED <<parserVars, linearizeVars, validateVars, txVars, fieldVars>>

\* useEffect(() => { validateAbi(abi) }, [])
MountEffect ==
  /\ pending # <<>>
  /\ Head(pending) = OwnEffect("mount")
  /\ RunValidateAbi

\* useEffect(() => { validateAbi(abi) }, [abi])
AbiEffect ==
  /\ pending # <<>>
  /\ Head(pending) = OwnEffect("abi")
  /\ RunValidateAbi

\* the effect on [linearizedAbi]
InitialValuesEffect ==
  /\ pending # <<>>
  /\ Head(pending) = OwnEffect("initialValues")
  /\ IF Len(rendered.linearizedAbi) > 0
       THEN /\ paramValues' = initialValues(rendered.linearizedAbi)
            /\ paramValidity' = initialValidity(rendered.linearizedAbi)
            /\ stale' = stale \cup {"paramValues", "paramValidity"}
       ELSE UNCHANGED <<paramValues, paramValidity, stale>>
  /\ pending' = Tail(pending)
  /\ history' = Did("initialValues", FALSE, 0, history.since)
  /\ UNCHANGED <<abiProp, isValid, error, linearizedAbi, valuePreview,
                 functionSignature, bytecode, rendered, children>>
  /\ UNCHANGED <<parserVars, linearizeVars, validateVars, txVars, fieldVars>>

\* the effect that generates the bytecode
BytecodeEffect ==
  /\ pending # <<>>
  /\ Head(pending) = OwnEffect("bytecode")
  /\ \E viem \in ViemOutcomes :
       \E tx \in {combineTx(rendered.functionSignature, rendered.valuePreview,
                            viem)} :
         /\ bytecode' =
              IF isFormValid(rendered, ~tx.thrown)
              THEN Calldata(rendered.functionSignature, rendered.valuePreview)
              ELSE NoBytecode
         /\ stale' = IF bytecode' # bytecode THEN stale \cup {"bytecode"}
                     ELSE stale
         \* onChange(paramValues, calldata) or onChange(paramValues, '')
         /\ history' = [Did("bytecode", FALSE, 0, history.since)
                          EXCEPT !.bytecodes = <<bytecode'>>,
                                 !.tx = IF isFormValid(rendered, TRUE)
                                        THEN <<tx>> ELSE <<>>]
  /\ pending' = Tail(pending)
  /\ UNCHANGED <<abiProp, isValid, error, linearizedAbi, paramValues,
                 paramValidity, valuePreview, functionSignature, rendered,
                 children>>
  /\ UNCHANGED <<parserVars, linearizeVars, validateVars, txVars, fieldVars>>

\* the parent passes another abi and the component renders with it
ChangeAbi ==
  /\ quiescent
  /\ \E next \in AbiProps \ {abiProp} : abiProp' = next
  /\ pending' = <<OwnEffect("abi")>>
  /\ history' = Did("changeAbi", FALSE, 0, "changeAbi")
  /\ UNCHANGED <<isValid, error, linearizedAbi, paramValues, paramValidity,
                 valuePreview, functionSignature, bytecode, stale, rendered,
                 children>>
  /\ UNCHANGED <<parserVars, linearizeVars, validateVars, txVars, fieldVars>>

\* handleInputChange of the input of a parameter that is neither a tuple
\* nor an array: validateInput calls onChange, then the handler does
EditField ==
  /\ quiescent
  /\ \E name \in DOMAIN children :
       LET child == children[name] IN
       /\ ~child.isTuple /\ ~child.isArray
       /\ \E newValue \in EditTexts(child.type) :
            \* onChange(newValue, validateInput(newValue)): the call
            \* validateInput makes, then the handler's
            LET calls(validated) ==
                  reported(validated.onChange, Text(newValue))
                    \o <<[value |-> Text(newValue),
                          isValid |-> validated.returned]>>
            IN  Reports(name,
                        calls(validateInput(child.type, child.isTuple,
                                            child.isArray, newValue)),
                        "handleInputChange", "edit")
  /\ UNCHANGED <<children, pending>>

\* { ...tupleObj, [key]: newValue }
withEntry(entries, key, newValue) ==
  IF \E i \in 1..Len(entries) : entries[i].key = key
  THEN [i \in 1..Len(entries) |->
          IF entries[i].key = key THEN [key |-> key, val |-> newValue]
          ELSE entries[i]]
  ELSE Append(entries, [key |-> key, val |-> newValue])

\* the entries of JSON.parse(value || '{}'), <<>> when it is no object or
\* when it throws (the catch block starts from the field alone)
tupleEntries(value) ==
  LET tupleObj == jsonParse(value)
  IN  IF value = EmptyText \/ IsThrown(tupleObj) \/ tupleObj.kind # "object"
      THEN <<>> ELSE tupleObj.entries

\* onChange of the input (or of the select, for a bool) of a simple field
\* of a tuple
EditTupleField ==
  /\ quiescent
  /\ \E name \in DOMAIN children :
       LET child == children[name]
           fields == parseTupleType(child.type, 0).fields
       IN
       /\ child.isTuple /\ ~child.isArray
       /\ \E k \in 1..Len(fields) :
            /\ ~fields[k].isComplex
            /\ \E newValue \in EditTexts(fields[k].type) :
                 LET isFieldValid ==
                       IF fields[k].type = W_bool THEN TRUE
                       ELSE validateSingleValue(newValue, fields[k].type)
                     newTupleValue ==
                       [obj |-> withEntry(tupleEntries(child.value),
                                          fields[k].name, Text(newValue))]
                 IN  Reports(name,
                             <<[value |-> newTupleValue, isValid |-> isFieldValid]>>,
                             "editTupleField", "edit")
  /\ UNCHANGED <<children, pending>>

\* the 0x0 button beside the input of an address parameter:
\* setComplexTupleAddressToZero(name)
SetAddressToZero ==
  /\ quiescent
  /\ \E name \in DOMAIN children :
       LET child == children[name]
           newTupleValue ==
             [obj |-> withEntry(tupleEntries(child.value), name,
                                Text(ZeroAddress))]
       IN
       /\ ~child.isTuple /\ ~child.isArray
       /\ child.type = W_address
       /\ Reports(name, <<[value |-> newTupleValue, isValid |-> TRUE]>>,
                  "setAddressToZero", "edit")
  /\ UNCHANGED <<children, pending>>

NextAbiInput ==
  \/ Render
  \/ ChildEffects
  \/ MountEffect
  \/ AbiEffect
  \/ InitialValuesEffect
  \/ BytecodeEffect
  \/ ChangeAbi
  \/ EditField
  \/ EditTupleField
  \/ SetAddressToZero

SpecAbiInput == InitAbiInput /\ [][NextAbiInput]_vars

(***************************************************************************)
(* combineTx on its own: a signature and a value preview; viem returns or  *)
(* throws.                                                                 *)
(***************************************************************************)
TransferSignature == <<"t", "r", "a", "n", "s", "f", "e", "r", "(", "a", "d",
    "d", "r", "e", "s", "s", " ", "t", "o", ",", " ", "u", "i", "n", "t",
        "2", "5", "6", " ", "a", "m", "o", "u", "n", "t", ")">>
TransferSignatureWithKeyword == W_function \o <<" ">> \o TransferSignature
FunctionFooSignature == <<"f", "u", "n", "c", "t", "i", "o", "n", "F", "o",
    "o", "(", "u", "i", "n", "t", "2", "5", "6", " ", "a", ")">>
SpacedSignature == <<" ">> \o TransferSignatureWithKeyword
NamelessSignature == <<"(", "u", "i", "n", "t", "2", "5", "6", " ", "a", ")">>

TxSignatures ==
  { TransferSignature, TransferSignatureWithKeyword, FunctionFooSignature,
    SpacedSignature, NamelessSignature }

\* 2^53 + 1 and 2^64
AboveSafeInteger == <<"9", "0", "0", "7", "1", "9", "9", "2", "5", "4", "7",
    "4", "0", "9", "9", "3">>
Above64Bits == <<"1", "8", "4", "4", "6", "7", "4", "4", "0", "7", "3", "7",
    "0", "9", "5", "5", "1", "6", "1", "6">>

TxLiterals ==
  { W_true, W_false, ZeroAddress, <<"1", "0", "0">>, <<"-", "1">>, <<"0",
      "0", "7">>, <<"1", ".", "5">>,
    AboveSafeInteger, <<"-">> \o AboveSafeInteger, Above64Bits,
    <<"\"", "h", "i", "\"">>, <<"\"", "a", ",", "b", "\"">>, <<"\"", "x",
        "[", "1", "]", "\"">>, <<"\"", "f", "(", "a", ")", "\"">>, <<"\"",
            "a", ",", " ", "(", "b", "\"">>,
    <<"h", "i">>, <<"\"">>, <<"(">>, <<>> }

\* a value preview: one literal, two of them, or one beside a tuple or
\* an array
TxPreviews ==
  TxLiterals
    \cup {a \o <<",", " ">> \o b : a \in TxLiterals, b \in {<<"1", "0",
        "0">>}}
    \cup {a \o <<",", " ">> \o b :
            a \in TxLiterals, b \in {<<"(", "1", ",", " ", "2", ")">>, <<"[",
                "1", ",", " ", "2", "]">>}}
    \cup {<<"(">> \o a \o <<",", " ", "1", ")">> : a \in TxLiterals}

InitCombineTx ==
  /\ txSignature \in TxSignatures
  /\ txArgs \in TxPreviews
  /\ txOut = <<>>
  /\ ParserIdle
  /\ LinIdle
  /\ ValidateIdle
  /\ ComponentIdle
  /\ FieldsIdle

CallCombineTx ==
  /\ txOut = <<>>
  /\ \E viem \in ViemOutcomes :
       txOut' = <<combineTx(txSignature, txArgs, viem)>>
  /\ UNCHANGED <<txSignature, txArgs, parserVars, linearizeVars,
                 validateVars, componentVars, fieldVars>>

NextCombineTx == CallCombineTx

SpecCombineTx == InitCombineTx /\ [][NextCombineTx]_vars

(***************************************************************************)
(* The two parsers of a tuple type on the same text: parseTupleType of     *)
(* SolidityInput, called twice, and parseTypeSignature of the formatter.   *)
(* The texts are the types linearizeAbi gives to tuple parameters.         *)
(***************************************************************************)
\* the types of the parameters that formatValueForPreview hands to
\* formatTupleWithStructure: type.startsWith('(') && type.endsWith(')')
TupleTypeTexts ==
  {t \in {linearizeAbi(a)[1].type :
            a \in {b \in AbiInputs(MaxNodes) : Len(b) = 1}} :
     startsWith(t, <<"(">>) /\ endsWith(t, <<")">>)}

\* some of the numbers Math.floor(Math.random() * 1000) gives
Randoms == {0, 7, 999}

InitFields ==
  /\ tupleTypeText \in TupleTypeTexts
  /\ inputFields = <<>>
  /\ formatterFields = <<>>
  /\ ParserIdle
  /\ LinIdle
  /\ ValidateIdle
  /\ ComponentIdle
  /\ TxIdle

\* SolidityInput parses the type, in a render and in the next one
CallParseTupleType ==
  /\ Len(inputFields) < 2
  /\ \E random \in Randoms :
       inputFields' =
         Append(inputFields, parseTupleType(tupleTypeText, random).fields)
  /\ UNCHANGED <<tupleTypeText, formatterFields, parserVars, linearizeVars,
                 validateVars, componentVars, txVars>>

\* formatTupleWithStructure parses the type
CallParseTypeSignatureOfTuple ==
  /\ formatterFields = <<>>
  /\ formatterFields' = <<parseTypeSignature(tupleTypeText)>>
  /\ UNCHANGED <<tupleTypeText, inputFields, parserVars, linearizeVars,
                 validateVars, componentVars, txVars>>

NextFields == CallParseTupleType \/ CallParseTypeSignatureOfTuple

SpecFields == InitFields /\ [][NextFields]_vars

(***************************************************************************)
(* The sub-fields of a tuple edited one after the other: the value of a    *)
(* tuple parameter, or of a tuple-array parameter whose items are tuples,  *)
(* and the preview handleParamChange computes from it.  vType is the type  *)
(* of the parameter, vValue its value, vOut the preview.                   *)
(***************************************************************************)
\* (uint8 a, string s, bool b)
EditedSignature == <<"(", "u", "i", "n", "t", "8", " ", "a", ",", " ", "s",
    "t", "r", "i", "n", "g", " ", "s", ",", " ", "b", "o", "o", "l", " ",
        "b", ")">>

EditedTypes == {EditedSignature, EditedSignature \o <<"[", "]">>}

\* what the user puts into the input, or chooses in the select, of a
\* sub-field
SubFieldTexts(type) ==
  IF type = W_uint8 THEN {<<"1">>, <<"2">>}
  ELSE IF type = W_bool THEN {W_true, W_false}
  ELSE {<<"h", "i">>, <<"y", "o">>}

MaxItems == 1   \* items of the tuple array

\* the item values of the value of an array parameter
itemsOf(value) == IF IsArr(value) THEN value.arr ELSE <<>>

InitEdit ==
  /\ vType \in EditedTypes
  /\ vValue = IF includes(vType, <<"[">>) THEN Text(<<"[", "]">>)
              ELSE EmptyText
  /\ vCall = "none"
  /\ vOut = NotCalled
  /\ ParserIdle
  /\ LinIdle
  /\ ComponentIdle
  /\ TxIdle
  /\ FieldsIdle

\* the fields SolidityInput renders for a tuple type
fieldsOf(type) ==
  {parseTupleType(type, 0).fields[k] :
     k \in 1..Len(parseTupleType(type, 0).fields)}

\* { ...tupleObj, [field.name]: newValue } for a simple field of the
\* tuple held by value
withSubField(value, field, newValue) ==
  [obj |-> withEntry(tupleEntries(value), field.name, Text(newValue))]

\* onChange of a sub-field of a tuple parameter, up to the preview set by
\* handleParamChange
EditSubField ==
  /\ ~includes(vType, <<"[">>)
  /\ \E field \in fieldsOf(vType) :
       \E newValue \in SubFieldTexts(field.type) :
         \E newTupleValue \in {withSubField(vValue, field, newValue)} :
           /\ vValue' = newTupleValue
           /\ vOut' = formatValueForPreview(newTupleValue, vType)
  /\ vCall' = "editSubField"
  /\ UNCHANGED <<vType, parserVars, linearizeVars, componentVars, txVars,
                 fieldVars>>

\* addArrayItem of a tuple array whose base type is the tuple written
\* out: the item is '', and the effect on [arrayItems] passes the array
\* to handleParamChange
AddArrayItem ==
  /\ includes(vType, <<"[">>)
  /\ Len(itemsOf(vValue)) < MaxItems
  /\ \E arrayValue \in {[arr |-> Append(itemsOf(vValue), EmptyText)]} :
       /\ vValue' = arrayValue
       /\ vOut' = formatValueForPreview(arrayValue, vType)
  /\ vCall' = "addArrayItem"
  /\ UNCHANGED <<vType, parserVars, linearizeVars, componentVars, txVars,
                 fieldVars>>

\* onChange of a sub-field of an item of a tuple array: the input of the
\* item passes the item's new value to the array, the array passes
\* JSON.stringify(newItems.map(i => i.value)) to handleParamChange
EditItemField ==
  /\ includes(vType, <<"[">>)
  /\ \E index \in 1..Len(itemsOf(vValue)) :
       \E field \in fieldsOf(stripArraySuffix(vType)) :
         \E newValue \in SubFieldTexts(field.type) :
           \E arrayValue \in
               {[arr |-> [itemsOf(vValue) EXCEPT
                            ![index] = withSubField(@, field, newValue)]]} :
             /\ vValue' = arrayValue
             /\ vOut' = formatValueForPreview(arrayValue, vType)
  /\ vCall' = "editItemField"
  /\ UNCHANGED <<vType, parserVars, linearizeVars, componentVars, txVars,
                 fieldVars>>

NextEdit == EditSubField \/ AddArrayItem \/ EditItemField

SpecEdit == InitEdit /\ [][NextEdit]_vars

(***************************************************************************)
(* Properties of the component.                                            *)
(***************************************************************************)
\* tupleObj[field.name] || '' : the value the input of a sub-field shows
subFieldValue(value, fieldName) ==
  LET found == entryOf(tupleEntries(value), fieldName)
  IN  IF found = <<>> THEN <<>> ELSE textOf(found[1].val)

\* a string is valid whatever it holds; another simple sub-field is valid
\* when validateSingleValue accepts its value
SubFieldValid(value, field) ==
  \/ field.isComplex
  \/ field.type = W_string
  \/ validateSingleValue(subFieldValue(value, field.name), field.type)

AllSubFieldsValid(type, value) ==
  LET fields == parseTupleType(type, 0).fields
  IN  \A k \in 1..Len(fields) : SubFieldValid(value, fields[k])

TupleParams ==
  {name \in DOMAIN children :
     children[name].isTuple /\ ~children[name].isArray}

\* C15: after an edit of a sub-field of a tuple, the validity stored for
\* the tuple parameter is true iff every sub-field's current value is
\* valid, not only the one edited last.
C15_TupleValidityIsConjunction ==
  history.op = "editTupleField" =>
    \A name \in TupleParams :
      paramValidity[name]
        = AllSubFieldsValid(children[name].type, paramValues[name])

\* C18: after handleParamChange has run (once or several times before
\* the next render), valuePreview is the ', '-join of
\* formatValueForPreview(paramValues[name], type) over the root
\* parameters, for the paramValues the calls have left.
C18_PreviewFromCurrentValues ==
  history.calls > 0 =>
    Text(valuePreview) = previewOf(paramValues, linearizedAbi)

IsFunctionItem(item) ==
  ~IsThrown(item) /\ ~IsUndefined(item) /\ item.type = "function"

ValidatesAsFunction(prop) == trim(prop.text) # <<>> /\ IsFunctionItem(prop.item)

\* C19: when the abi prop has changed to a string that validates as a
\* function and the effects have run (nothing edited since), paramValues
\* and paramValidity hold exactly the names of the new signature, every
\* value '', the validity true only for tuple and string types, and
\* valuePreview and bytecode are derived from these values only; the
\* function may have no parameters.
C19_NewSignatureReplacesState ==
  (quiescent /\ history.since = "changeAbi" /\ ValidatesAsFunction(abiProp)) =>
    LET names == namesOf(linearizeAbi(abiProp.item.inputs)) IN
    /\ DOMAIN paramValues = names
    /\ DOMAIN paramValidity = names
    /\ \A name \in names :
         /\ paramValues[name] = EmptyText
         /\ paramValidity[name]
              = (isTupleParam(typeOfParam(linearizedAbi, name))
                 \/ typeOfParam(linearizedAbi, name) = W_string)
    /\ Text(valuePreview) = previewOf(paramValues, linearizedAbi)
    /\ bytecode \in {NoBytecode, Calldata(functionSignature, valuePreview)}

C20_WitnessBlank ==
  /\ history.op = "validateAbi"
  /\ abiProp = BlankAbi
  /\ ~history.returned /\ ~isValid
  /\ error = "ABI cannot be empty"

(***************************************************************************)
(* Properties of combineTx.                                                *)
(***************************************************************************)
\* the calls of combineTx that got as far as the signature
ReachedSignature == txOut # <<>> /\ txOut[1].given # <<>>

\* the name a signature declares: what stands before the parameter list,
\* after the keyword when the signature has it
declaredName(sig) ==
  LET named(s) == trim(SubSeq(s, 1, indexOf(s, <<"(">>) - 1))
      unkeyed(s) ==
        IF startsWith(s, W_function) /\ Len(s) > 8 /\ s[9] \in Whitespace
          THEN SubSeq(s, 9, Len(s)) ELSE s
  IN  named(unkeyed(trimStart(sig)))

\* C24: the text combineTx gives to parseAbiItem begins with the keyword
\* 'function' followed by whitespace: a signature without the keyword gets
\* 'function ' put before it (one whose name begins with the letters
\* 'function' too), one with the keyword is passed as it is; and the
\* function name taken for the encoder is the declared name.
C24_KeywordBeforeEverySignature ==
  ReachedSignature =>
    /\ startsWith(txOut[1].given, W_function)
    /\ txOut[1].given[9] \in Whitespace
    /\ txOut[1].given
         \in {txSignature, W_function \o <<" ">> \o txSignature}
    /\ declaredName(txSignature) # <<>> /\ ~txOut[1].thrown
         => txOut[1].functionName = declaredName(txSignature)

\* C24 for the signatures that do not begin with the letters 'function'
\* (the keyword apart) and have no space before the keyword
C24_Holds_OtherSignatures ==
  /\ ReachedSignature
  /\ txSignature \in {TransferSignature, TransferSignatureWithKeyword}
  => /\ txOut[1].given = TransferSignatureWithKeyword
     /\ ~txOut[1].thrown => txOut[1].functionName = <<"t", "r", "a", "n",
         "s", "f", "e", "r">>

\* the double-quoted literals of the previews, and what may stand after one
QuotedLiterals ==
  {<<"\"", "h", "i", "\"">>, <<"\"", "a", ",", "b", "\"">>, <<"\"", "x", "[",
      "1", "]", "\"">>, <<"\"", "f", "(", "a", ")", "\"">>, <<"\"", "a", ",",
          " ", "(", "b", "\"">>}

AfterLiteral == {<<>>, <<",", " ", "1", "0", "0">>, <<",", " ", "(", "1",
    ",", " ", "2", ")">>, <<",", " ", "[", "1", ",", " ", "2", "]">>}

\* the arguments of a finished call are an array whose first is the string
\* between the quotes of literal, of count arguments in all
FirstIsContentOf(literal, count) ==
  /\ ~IsThrown(txOut[1].args)
  /\ Len(txOut[1].args.items) = count
  /\ txOut[1].args.items[1] = StringArg(withoutEnds(literal))

\* C25: a double-quoted literal of the value preview becomes one string
\* argument holding exactly the characters between its quotes; commas,
\* parentheses and square brackets inside it neither split arguments nor
\* are rewritten, with or without a tuple or an array in the preview.
C25_QuotedLiteralIsOneArgument ==
  \A literal \in QuotedLiterals, rest \in AfterLiteral :
    txOut # <<>> /\ txArgs = literal \o rest
      => FirstIsContentOf(literal, IF rest = <<>> THEN 1 ELSE 2)

\* C25 for the literals without comma and bracket, and for a comma in a
\* literal beside a tuple
C25_Holds_PlainLiteral ==
  \A literal \in {<<"\"", "h", "i", "\"">>, <<"\"", "f", "(", "a", ")",
      "\"">>}, rest \in AfterLiteral :
    txOut # <<>> /\ txArgs = literal \o rest
      => FirstIsContentOf(literal, IF rest = <<>> THEN 1 ELSE 2)

\* the bare tokens of the previews and the kind of argument each is
BareTokens ==
  {W_true, W_false, ZeroAddress, <<"1", "0", "0">>, <<"-", "1">>, <<"0", "0",
      "7">>, <<"1", ".", "5">>}

kindOfToken(token) ==
  IF token \in {W_true, W_false} THEN "boolean"
  ELSE IF token = ZeroAddress THEN "string"
  ELSE "number"

FirstIsOfKind(token) ==
  /\ ~IsThrown(txOut[1].args)
  /\ txOut[1].args.items[1].kind = kindOfToken(token)
  /\ token = W_true => txOut[1].args.items[1] = BooleanArg(TRUE)
  /\ token = W_false => txOut[1].args.items[1] = BooleanArg(FALSE)
  /\ token = ZeroAddress => txOut[1].args.items[1] = StringArg(ZeroAddress)

\* C26: a bare true or false reaches the encoder as a boolean, an address
\* token as a string and a decimal token as a number, in the branch for a
\* preview with parentheses or brackets and in the branch for one without.
C26_SameClassificationInBothBranches ==
  \A token \in BareTokens, rest \in AfterLiteral :
    txOut # <<>> /\ txArgs = token \o rest => FirstIsOfKind(token)

\* C26 for the branch of previews with parentheses or brackets, and in
\* both branches for the address and the decimal tokens without a
\* leading zero
C26_Holds_TupleBranchAndOtherTokens ==
  \A token \in BareTokens, rest \in AfterLiteral :
    /\ txOut # <<>>
    /\ txArgs = token \o rest
    /\ \/ rest \in {<<",", " ", "(", "1", ",", " ", "2", ")">>, <<",", " ",
        "[", "1", ",", " ", "2", "]">>}
       \/ token \in {ZeroAddress, <<"1", "0", "0">>, <<"-", "1">>, <<"1",
           ".", "5">>}
    => FirstIsOfKind(token)

\* the integer literals of the previews
IntegerLiterals ==
  {<<"1", "0", "0">>, <<"-", "1">>, AboveSafeInteger,
      <<"-">> \o AboveSafeInteger,
   Above64Bits}

\* the integer a literal denotes
exactValue(literal) ==
  IF literal[1] = "-" THEN Big(TRUE, magnitudeOf(Tail(literal), 10))
  ELSE Big(FALSE, magnitudeOf(literal, 10))

\* C27: an integer literal of the value preview reaches the encoder with
\* exactly its decimal value, as a value of arbitrary precision or as its
\* decimal text, also above 2^53 and above the 64-bit range.
C27_IntegerLiteralKeepsItsValue ==
  \A literal \in IntegerLiterals, rest \in AfterLiteral :
    txOut # <<>> /\ txArgs = literal \o rest
      => /\ ~IsThrown(txOut[1].args)
         /\ txOut[1].args.items[1]
              \in {NumberArg(exactValue(literal), <<>>), StringArg(literal)}

\* C27 for the integers a double holds exactly
C27_Holds_ExactDoubles ==
  \A literal \in {<<"1", "0", "0">>, <<"-", "1">>, Above64Bits},
      rest \in AfterLiteral :
    txOut # <<>> /\ txArgs = literal \o rest
      => /\ ~IsThrown(txOut[1].args)
         /\ txOut[1].args.items[1] = NumberArg(exactValue(literal), <<>>)

(***************************************************************************)
(* Properties of the component: the calldata.                              *)
(***************************************************************************)
\* C21: while isValid is false the component holds no calldata: bytecode
\* is '' and every bytecode onChange is called with is ''; a signature
\* that fails validateAbi after a valid one leaves nothing derived from
\* the earlier signature.
C21_InvalidSignatureHoldsNoCalldata ==
  ~isValid =>
    /\ bytecode = NoBytecode
    /\ \A i \in 1..Len(history.bytecodes) : history.bytecodes[i] = NoBytecode

\* C21 for a component that has had no valid signature yet
C21_Holds_UntilFirstValidSignature ==
  ~isValid /\ history.since = "mount" => bytecode = NoBytecode

\* the conditions of isFormValid other than the trial encoding
FieldsAndTextsPresent(validity, functionSignature_, valuePreview_) ==
  /\ \A name \in DOMAIN validity : validity[name]
  /\ functionSignature_ # <<>>
  /\ valuePreview_ # <<>>

C23_FailedCalldataLeavesValues ==
  [][history'.op = "bytecode" /\ history'.tx # <<>> /\ history'.tx[1].thrown
       => /\ history'.tx[1].message[1] = "Failed to generate calldata: "
          /\ Len(history'.tx[1].message) = 2
          /\ history'.tx[1].message[2] # ""
          /\ bytecode' = NoBytecode
          /\ history'.bytecodes = <<NoBytecode>>
          /\ paramValues' = paramValues
          /\ paramValidity' = paramValidity
          /\ pending' = Tail(pending)
          /\ isValid' = isValid /\ error' = error]_vars

C23_Witness ==
  /\ history.op = "bytecode"
  /\ history.tx # <<>>
  /\ history.tx[1].thrown
  /\ bytecode = NoBytecode
  /\ \E name \in DOMAIN paramValues : paramValues[name] # EmptyText

(***************************************************************************)
(* Properties of the component: the zero-address button.                   *)
(***************************************************************************)
\* the address parameters (an abi of the model has at most one)
AddressParams ==
  {name \in DOMAIN children :
     /\ children[name].type = W_address
     /\ ~children[name].isTuple /\ ~children[name].isArray}

\* C28: after the zero-address button of the input of an address
\* parameter, the value onChange was called with, and the parameter now
\* holds, is the 42 characters of the zero address itself and not a JSON
\* object around it, and the parameter is valid, whatever the input held.
C28_ZeroAddressButtonGivesTheAddress ==
  history.op = "setAddressToZero" =>
    \A name \in AddressParams :
      /\ paramValues[name] = Text(ZeroAddress)
      /\ paramValidity[name]

\* what the button gives: the JSON object with the address under the name
\* of the parameter, reported valid
C28_Holds_ObjectAroundTheAddress ==
  history.op = "setAddressToZero" =>
    \A name \in AddressParams :
      /\ textOf(paramValues[name])
           = <<"{", "\"">> \o name \o <<"\"", ":",
               "\"">> \o ZeroAddress \o <<"\"", "}">>
      /\ paramValidity[name]

(***************************************************************************)
(* Properties of the two parsers of a tuple type.                          *)
(***************************************************************************)
\* the (type, name) pairs of fields, in order
typesAndNames(fields) ==
  [i \in 1..Len(fields) |-> Field(fields[i].type, fields[i].name)]

\* C29: on a tuple type that linearizeAbi produces, parseTupleType gives
\* the same (type, name) fields in the same order as parseTypeSignature,
\* a nested tuple-array field with its array suffix in the type and its
\* declared name, and a second call of parseTupleType gives the same
\* names as the first.
C29_ParsersAgreeOnTupleTypes ==
  /\ \A k \in 1..Len(inputFields) :
       formatterFields # <<>>
         => typesAndNames(inputFields[k]) = typesAndNames(formatterFields[1])
  /\ Len(inputFields) = 2
       => typesAndNames(inputFields[1]) = typesAndNames(inputFields[2])

\* C29 for the tuple types without an array among their fields
C29_Holds_WithoutArrayFields ==
  ~includes(tupleTypeText, <<"[">>) => C29_ParsersAgreeOnTupleTypes

(***************************************************************************)
(* Properties of the edits of the sub-fields of a tuple.                   *)
(***************************************************************************)
\* the entries of a tuple value put in the order the type declares its
\* fields: what editing the sub-fields in declared order leaves
inDeclaredOrder(value, type) ==
  LET fields == parseTupleType(type, 0).fields
      present ==
        SelectSeq(fields,
                  LAMBDA field : entryOf(tupleEntries(value), field.name) # <<>>)
  IN  IF ~IsObj(value) THEN value
      ELSE [obj |-> [k \in 1..Len(present) |->
                       entryOf(tupleEntries(value), present[k].name)[1]]]

\* the same for the parameter: the tuple, or every item of the array
parameterInDeclaredOrder(value, type) ==
  IF IsArr(value)
    THEN [arr |-> [i \in 1..Len(value.arr) |->
                     inDeclaredOrder(value.arr[i], stripArraySuffix(type))]]
  ELSE inDeclaredOrder(value, type)

\* C30: after an edit of a sub-field of a tuple parameter or of an item
\* of a tuple-array parameter, the preview is the one the same sub-field
\* values give when they are entered in the order the type declares the
\* fields: the order of the edits does not show in it.
C30_PreviewIndependentOfEditOrder ==
  vCall \in {"editSubField", "editItemField"} =>
    vOut = formatValueForPreview(parameterInDeclaredOrder(vValue, vType),
                                 vType)

\* C30 for a tuple parameter
C30_Holds_TupleParameter ==
  vCall = "editSubField" =>
    vOut = formatValueForPreview(parameterInDeclaredOrder(vValue, vType),
                                 vType)

====
